---- MODULE Spec2Model ----
(***************************************************************************)
(* kubectl-gather: the gathering engine of pkg/gather.                     *)
(*                                                                         *)
(* WorkQueue (workqueue.go) is a pool of worker goroutines ranging over an *)
(* unbuffered channel of work functions. Gatherer.Gather() runs a three    *)
(* step pipeline (prepare -> gather -> inspect) over two such queues.      *)
(*                                                                         *)
(* A thread (the goroutine calling Gather(), a worker goroutine, a client  *)
(* of the queue) is modelled by the sequence of operations it still has to *)
(* perform, ops[t]. A channel send is a rendezvous of a thread whose next  *)
(* operation is a Queue() call with a worker blocked in its range loop.    *)
(* A Go panic in any goroutine ends the process: no action is enabled once *)
(* panicked is set.                                                        *)
(***************************************************************************)
EXTENDS Naturals, Integers, Sequences, FiniteSets, Bags, TLC

(***************************************************************************)
(* Bounds of the model.                                                    *)
(***************************************************************************)
\* Workers per queue (workQueueSize is 6 in the program; the claims are
\* stated for any number of workers).
Workers == 2
\* Client goroutines using a WorkQueue in the WorkQueue specification.
NumClients == 2
\* Work functions submitted in the WorkQueue specification.
MaxFuncs == 3
\* Close() calls made in the WorkQueue specification.
MaxCloses == 2

Queues == {"gather", "inspect"}
WorkerIds == 1..Workers
ClientIds == 1..NumClients

\* The goroutine that calls Gather().
MainThread == <<"main", 0>>
WorkerThreads == Queues \X WorkerIds
ClientThreads == {"client"} \X ClientIds
Threads == {MainThread} \cup WorkerThreads \cup ClientThreads

\* The nil error. A non-nil error of a work function is a positive number.
Nil == 0
\* Wait() has not returned yet.
NotReturned == <<>>
\* Wait() returned err.
Returned(err) == <<err>>

VARIABLES
    ops,        \* [Threads -> Seq(op)]: what each thread still has to do
    wst,        \* [WorkerThreads -> [st, unit]]: the worker goroutines
    closed,     \* [Queues -> BOOLEAN]: WorkQueue.closed
    chClosed,   \* [Queues -> BOOLEAN]: the channel WorkQueue.queue is closed
    wg,         \* [Queues -> Nat]: WorkQueue.wg counter
    qerr,       \* [Queues -> error]: WorkQueue.err
    panicked,   \* "no", or the runtime panic that ended the process
    closes,     \* [Queues -> Nat]: close(q.queue) statements executed
    closeCalls, \* [Queues -> Nat]: Close() calls made
    accepted,   \* bag of work functions whose Queue() call returned
    ran,        \* bag of work functions invoked by a worker
    errLog,     \* [Queues -> Seq(error)]: errors passed to setFirstError
    waitRet,    \* [Queues -> Seq(error)]: what the first Wait() returned
    nfuncs,     \* work functions created by the clients
    cluster,    \* the cluster the job gathers from
    opts,       \* Options: [Namespaces, Addons] of the job
    pc,         \* where the goroutine calling Gather() is
    found,      \* prepare: the namespaces found on the cluster
    prepErr,    \* prepare: the error it returns ("nil" if none)
    ret,        \* what Gather() returned (<<"none">> before it returns)
    resources,  \* Gatherer.resources: the set of keys added
    files,      \* the files created under the output directory
    addCalls,   \* bag of keys addResource was called with
    wins,       \* bag of keys addResource returned true for
    writes,     \* bag of files dumpResource was called for
    discovered, \* prepare: listAPIResources was called
    count,      \* [WorkerThreads -> Nat]: count of the gatherResources call
    agent,      \* [node -> Seq]: what the running gatherNodeLogs did with the agent pod of the node
    gets,       \* bag of <<key, result>>: the Get calls of getResource
    input,      \* the arguments of a function applied on its own
    output,     \* <<its result>>, <<>> before it is applied
    local,      \* localGather: its clusters, the gatherer and the result of
                \* each job, and the files below the output directory
    listLog     \* [WorkerThreads -> Seq]: the listResources calls of the
                \* gatherResources call the worker runs, with their results

wqvars == <<wst, closed, chClosed, wg, qerr, panicked, closes, closeCalls,
            accepted, ran, errLog, waitRet, nfuncs>>

gvars == <<cluster, opts, pc, found, prepErr, ret, resources, files, addCalls, wins,
           writes>>

lvars == <<discovered, listLog>>

xvars == <<count, agent, gets, input, output, local>>

vars == <<ops, wqvars, gvars, lvars, xvars>>

NoUnit == [kind |-> "none"]

\* The process has not been ended by a panic.
Alive == panicked = "no"

(***************************************************************************)
(* The cluster the job gathers from, and the job's options.                *)
(***************************************************************************)
\* Nodes running pods of the cephcluster's namespace.
NumNodes == 1

\* The longest Options.Addons list.
MaxAddons == 2

\* The most entries of status.containerStatuses of a pod.
MaxContainers == 2

\* The most lines the remote tar writes to its stderr.
MaxLines == 2

\* Options.Addons == nil enables every addon.
NilList == [nil |-> TRUE, list |-> <<>>]

\* metav1.NamespaceAll
NamespaceAll == ""

\* Options.Addons: a list that is not nil.
List(l) == [nil |-> FALSE, list |-> l]

\* The jobs checked: the cluster gathered from, the namespace filter
\* (Options.Namespaces) and the addons (Options.Addons). Cluster "storage"
\* holds persistent volume claims in two namespaces and has no namespace
\* "ns3"; cluster "rook" holds a cephcluster; cluster "app" holds a pod
\* and a claim with its volume and storage class; cluster "pages" holds
\* two pods in one namespace, more than a page. Namespaces <<>> is a
\* slice of length 0, nil (no --namespaces) or empty (--namespaces=): the
\* program only takes its length and ranges over it.
Jobs ==
    { [cluster |-> "storage", Namespaces |-> <<>>, Addons |-> NilList],
      [cluster |-> "storage", Namespaces |-> <<"ns1", "ns2">>, Addons |-> NilList],
      [cluster |-> "storage", Namespaces |-> <<"ns1", "ns3">>, Addons |-> NilList],
      [cluster |-> "storage", Namespaces |-> <<"ns3">>, Addons |-> NilList],
      [cluster |-> "rook", Namespaces |-> <<>>, Addons |-> NilList],
      [cluster |-> "rook", Namespaces |-> <<>>, Addons |-> List(<<>>)],
      [cluster |-> "app", Namespaces |-> <<"ns1">>, Addons |-> List(<<"pvcs">>)],
      [cluster |-> "app", Namespaces |-> <<"ns1">>, Addons |-> List(<<"logs">>)],
      [cluster |-> "app", Namespaces |-> <<"ns1">>, Addons |-> List(<<>>)],
      [cluster |-> "pages", Namespaces |-> <<"ns1">>, Addons |-> List(<<"logs">>)] }

\* The namespaces that exist on the cluster.
ClusterNamespaces(c) ==
    CASE c = "storage" -> {"ns1", "ns2"}
      [] c = "rook" -> {"rook-ceph"}
      [] c = "app" -> {"ns1"}
      [] c = "pages" -> {"ns1"}

\* discovery ServerPreferredResources(): group, resource name, scope and
\* verbs.
ServerPreferredResources(c) ==
    IF c = "storage"
       THEN << [group |-> "", name |-> "persistentvolumeclaims", namespaced |-> TRUE, verbs |-> {"get", "list"}],
               [group |-> "", name |-> "persistentvolumes", namespaced |-> FALSE, verbs |-> {"get", "list"}],
               [group |-> "", name |-> "events", namespaced |-> TRUE, verbs |-> {"get", "list"}] >>
    ELSE IF c = "pages"
       THEN << [group |-> "", name |-> "pods", namespaced |-> TRUE, verbs |-> {"get", "list"}] >>
    ELSE IF c = "rook"
       THEN << [group |-> "ceph.rook.io", name |-> "cephclusters", namespaced |-> TRUE, verbs |-> {"get", "list"}],
               [group |-> "", name |-> "bindings", namespaced |-> TRUE, verbs |-> {"create"}] >>
       ELSE << [group |-> "", name |-> "pods", namespaced |-> TRUE, verbs |-> {"get", "list"}],
               [group |-> "", name |-> "persistentvolumeclaims", namespaced |-> TRUE, verbs |-> {"get", "list"}],
               [group |-> "", name |-> "persistentvolumes", namespaced |-> FALSE, verbs |-> {"get", "list"}],
               [group |-> "storage.k8s.io", name |-> "storageclasses", namespaced |-> FALSE, verbs |-> {"get", "list"}] >>

\* resourceInfo
ResourceInfo(group, resource, namespaced) ==
    [group |-> group, resource |-> resource, namespaced |-> namespaced]

NamespacesResource == ResourceInfo("", "namespaces", FALSE)

NameResourceOnly(r) == <<r.resource>>

\* resourceInfo.Name: the resource when the group is empty, else
\* group + "/" + resource; a name is kept as its "/"-separated segments.
Name(r) == IF r.group = "" THEN <<r.resource>> ELSE <<r.group, r.resource>>

\* The objects of the cluster, as the server lists them. Object is the
\* content of an unstructured object: a value is a string, a map from keys
\* to values, a slice of values, or of another kind.
Objects(c, r) ==
    CASE c = "storage" /\ Name(r) = <<"persistentvolumeclaims">> ->
            << [ns |-> "ns1", name |-> "c1",
                Object |-> [kind |-> "map", v |->
                   [spec |-> [kind |-> "map", v |->
                       [volumeName |-> [kind |-> "string", v |-> "pv1"],
                        storageClassName |-> [kind |-> "string", v |-> ""]]]]]],
               [ns |-> "ns2", name |-> "c2",
                Object |-> [kind |-> "map", v |->
                   [spec |-> [kind |-> "map", v |->
                       [volumeName |-> [kind |-> "string", v |-> "pv1"],
                        storageClassName |-> [kind |-> "string", v |-> ""]]]]]] >>
      [] c = "storage" /\ Name(r) = <<"persistentvolumes">> ->
            << [ns |-> "", name |-> "pv1", spec |-> [phase |-> "Bound"]] >>
      [] c = "rook" /\ Name(r) = <<"ceph.rook.io", "cephclusters">> ->
            << [ns |-> "rook-ceph", name |-> "ceph",
                spec |-> [logCollector |-> TRUE, dataDirHostPath |-> "/var/lib/rook"]] >>
      [] c = "app" /\ Name(r) = <<"pods">> ->
            << [ns |-> "ns1", name |-> "pod1",
                Object |-> [kind |-> "map", v |->
                   [status |-> [kind |-> "map", v |->
                       [containerStatuses |-> [kind |-> "slice", v |->
                           <<[kind |-> "map", v |->
                               [name |-> [kind |-> "string", v |-> "c1"],
                                lastState |-> [kind |-> "map", v |-> <<>>]]]>>]]]]]] >>
      [] c = "pages" /\ Name(r) = <<"pods">> ->
            << [ns |-> "ns1", name |-> "pod1",
                Object |-> [kind |-> "map", v |->
                   [status |-> [kind |-> "map", v |->
                       [containerStatuses |-> [kind |-> "slice", v |->
                           <<[kind |-> "map", v |->
                               [name |-> [kind |-> "string", v |-> "c1"]]]>>]]]]]],
               [ns |-> "ns1", name |-> "pod2",
                Object |-> [kind |-> "map", v |->
                   [status |-> [kind |-> "map", v |->
                       [containerStatuses |-> [kind |-> "slice", v |->
                           <<[kind |-> "map", v |->
                               [name |-> [kind |-> "string", v |-> "c1"]]]>>]]]]]] >>
      [] c = "app" /\ Name(r) = <<"persistentvolumeclaims">> ->
            << [ns |-> "ns1", name |-> "c1",
                Object |-> [kind |-> "map", v |->
                   [spec |-> [kind |-> "map", v |->
                       [volumeName |-> [kind |-> "string", v |-> "pv1"],
                        storageClassName |-> [kind |-> "string", v |-> "standard"]]]]]] >>
      [] c = "app" /\ Name(r) = <<"persistentvolumes">> ->
            << [ns |-> "", name |-> "pv1", spec |-> [phase |-> "Bound"]] >>
      [] c = "app" /\ Name(r) = <<"storage.k8s.io", "storageclasses">> ->
            << [ns |-> "", name |-> "standard", spec |-> [phase |-> ""]] >>
      [] OTHER -> <<>>

\* What a list of r in namespace returns (one page: the cluster holds
\* fewer objects than listResourcesLimit).
ListItems(c, r, namespace) ==
    SelectSeq(Objects(c, r),
              LAMBDA o : ~r.namespaced \/ namespace = NamespaceAll \/ o.ns = namespace)

\* The page size gatherResources asks for (listResourcesLimit is 100 in
\* the program).
PageLimit == 1

\* The page a list call returns: limit items after the continuation
\* token (the number of items already returned), all of them when the
\* limit is 0.
ListPage(c, r, namespace, limit, continue) ==
    LET all == ListItems(c, r, namespace) IN
        IF limit = 0 THEN all
        ELSE SubSeq(all, continue + 1,
                    IF continue + limit < Len(all) THEN continue + limit ELSE Len(all))

\* list.GetContinue(): 0 stands for the empty token.
GetContinue(c, r, namespace, limit, continue) ==
    IF limit # 0 /\ continue + limit < Len(ListItems(c, r, namespace))
       THEN continue + limit ELSE 0

\* The node names findNodesToGather returns.
Nodes == [i \in 1..NumNodes |-> i]

(***************************************************************************)
(* Keys and paths.                                                         *)
(***************************************************************************)
\* keyFromName: "namespaces/{ns}/{name of r}/{name}" or
\* "cluster/{name of r}/{name}", as segments.
keyFromName(r, namespace, name) ==
    IF r.namespaced
       THEN <<"namespaces", namespace>> \o Name(r) \o <<name>>
       ELSE <<"cluster">> \o Name(r) \o <<name>>

keyFromResource(r, item) == keyFromName(r, item.ns, item.name)

\* createFile(createDirectory(base, args...), name + suffix), relative to
\* the base directory.
File(dir, name, suffix) == [dir |-> dir, name |-> name, suffix |-> suffix]

CreateNamespacedResource(namespace, resource, name) ==
    File(<<"namespaces", namespace>> \o resource, name, ".yaml")

CreateClusterResource(resource, name) ==
    File(<<"cluster">> \o resource, name, ".yaml")

CreateContainerLog(namespace, pod, container, name) ==
    File(<<"namespaces", namespace, "pods", pod, container>>, name, ".log")

createResourceCluster(r, item) == CreateClusterResource(Name(r), item.name)

\* createResource: the file of the item by the scope of the resource.
createResource(r, item) ==
    IF r.namespaced
       THEN CreateNamespacedResource(item.ns, Name(r), item.name)
       ELSE CreateClusterResource(Name(r), item.name)

\* keyFromName as the string fmt.Sprintf builds: the segments of the key
\* separated by "/", empty ones included.
RECURSIVE Sprintf(_)
Sprintf(key) ==
    IF Len(key) = 1 THEN key[1]
    ELSE key[1] \o "/" \o Sprintf(Tail(key))

\* filepath.Join: the elements separated by "/", empty elements ignored.
RECURSIVE Join(_)
Join(elem) ==
    IF elem = <<>> THEN ""
    ELSE IF Head(elem) = "" THEN Join(Tail(elem))
    ELSE IF Join(Tail(elem)) = "" THEN Head(elem)
    ELSE Head(elem) \o "/" \o Join(Tail(elem))

\* createFile: the path of a file relative to the base directory,
\* filepath.Join(dir, name + suffix).
Filename(file) == Join(<<Join(file.dir), file.name \o file.suffix>>)

\* The object file of a key: the key with the suffix ".yaml".
YamlFile(key) ==
    File(SubSeq(key, 1, Len(key) - 1), key[Len(key)], ".yaml")

(***************************************************************************)
(* Resources to gather and addons.                                         *)
(***************************************************************************)
\* shouldGather
shouldGatherAnyGroup(o, res) ==
    IF "list" \notin res.verbs THEN FALSE
    ELSE IF Len(o.Namespaces) # 0 /\ ~res.namespaced THEN FALSE
    ELSE IF Len(o.Namespaces) # 0 /\ res.name = "packagemanifests" THEN FALSE
    ELSE IF res.name = "events" THEN FALSE
    ELSE IF res.name = "componentstatuses" THEN FALSE
    ELSE TRUE

shouldGatherAnyScope(o, res) ==
    IF "list" \notin res.verbs THEN FALSE
    ELSE IF /\ Len(o.Namespaces) # 0
            /\ res.name = "packagemanifests"
            /\ res.group = "packages.operators.coreos.com" THEN FALSE
    ELSE IF res.name = "events" /\ res.group = "" THEN FALSE
    ELSE IF res.name = "componentstatuses" /\ res.group = "" THEN FALSE
    ELSE TRUE

shouldGather(o, res) ==
    IF "list" \notin res.verbs THEN FALSE
    ELSE IF Len(o.Namespaces) # 0 /\ ~res.namespaced THEN FALSE
    ELSE IF /\ Len(o.Namespaces) # 0
            /\ res.name = "packagemanifests"
            /\ res.group = "packages.operators.coreos.com" THEN FALSE
    ELSE IF res.name = "events" /\ res.group = "" THEN FALSE
    ELSE IF res.name = "componentstatuses" /\ res.group = "" THEN FALSE
    ELSE TRUE

\* listAPIResources: the resources of the server that should be gathered.
RECURSIVE listAPIResourcesFrom(_, _)
listAPIResourcesFrom(o, items) ==
    IF items = <<>> THEN <<>>
    ELSE (IF shouldGather(o, Head(items))
             THEN <<ResourceInfo(Head(items).group, Head(items).name,
                                 Head(items).namespaced)>>
             ELSE <<>>) \o listAPIResourcesFrom(o, Tail(items))

listAPIResources(c, o) == listAPIResourcesFrom(o, ServerPreferredResources(c))

\* addonRegistry: addon name -> the resource it inspects.
AddonRegistry ==
    [pvcs |-> <<"persistentvolumeclaims">>,
     logs |-> <<"pods">>,
     rook |-> <<"ceph.rook.io", "cephclusters">>]

addonEnabledOrEmpty(name, o) ==
    Len(o.Addons.list) = 0 \/ \E i \in 1..Len(o.Addons.list) : o.Addons.list[i] = name

\* addonEnabled
addonEnabled(name, o) ==
    o.Addons.nil \/ \E i \in 1..Len(o.Addons.list) : o.Addons.list[i] = name

createAddonsAll(o, failing) ==
    [err |-> "nil",
     registry |-> [n \in {AddonRegistry[a] : a \in DOMAIN AddonRegistry} |->
                      CHOOSE a \in DOMAIN AddonRegistry : AddonRegistry[a] = n]]

\* createAddons: the map from resource name to the addon created for it,
\* or the error of the AddonFunc of the addon named failing ("" when
\* every AddonFunc succeeds).
createAddons(o, failing) ==
    LET enabled == {a \in DOMAIN AddonRegistry : addonEnabled(a, o)} IN
        IF failing \in enabled
           THEN [err |-> "cannot create addon", registry |-> <<>>]
           ELSE [err |-> "nil",
                 registry |-> [n \in {AddonRegistry[a] : a \in enabled} |->
                                  CHOOSE a \in enabled : AddonRegistry[a] = n]]

\* g.addons[r.Name()] of a constructed Gatherer: the addon bound to the
\* resource, "" if none.
Addon(o, r) ==
    LET addons == createAddons(o, "").registry IN
        IF Name(r) \in DOMAIN addons THEN addons[Name(r)] ELSE ""

(***************************************************************************)
(* Work functions.                                                         *)
(***************************************************************************)
\* A client's work function: one opaque call returning err.
FnUnit(id, err) == [kind |-> "fn", id |-> id, err |-> err]

\* prepare: func() error { g.gatherResources(r, namespace); return nil }
GatherResourcesUnit(r, namespace) ==
    [kind |-> "gatherResources", r |-> r, namespace |-> namespace]

\* RookAddon.Inspect: func() error { a.gatherCommands(namespace); return nil }
GatherCommandsUnit(namespace) ==
    [kind |-> "gatherCommands", namespace |-> namespace]

\* RookAddon.gatherCommands: func() error { a.gatherCommand(rc, ...); return nil }
GatherCommandUnit(command) == [kind |-> "gatherCommand", command |-> command]

\* RookAddon.Inspect: func() error { a.gatherLogs(namespace, dataDir); return nil }
GatherLogsUnit(namespace, dataDir) ==
    [kind |-> "gatherLogs", namespace |-> namespace, dataDir |-> dataDir]

\* RookAddon.gatherLogs: func() error { a.gatherNodeLogs(...); return nil }
GatherNodeLogsUnit(namespace, node, dataDir) ==
    [kind |-> "gatherNodeLogs", namespace |-> namespace, node |-> node,
     dataDir |-> dataDir]

\* LogsAddon.Inspect: func() error { a.gatherContainerLog(container, &opts); return nil }
\* with opts.Previous as given.
GatherContainerLogUnit(container, previous) ==
    [kind |-> "gatherContainerLog", container |-> container, previous |-> previous]

\* A work function that returns the error of what it called.
ErrOfUnit(u) == IF u.kind = "fn" THEN u.err ELSE Nil + 1

\* The error returned by a work function: the closures of the gatherer
\* and of the addons all return nil.
Err(u) == IF u.kind = "fn" THEN u.err ELSE Nil

QueueOp(q, u) == [op |-> "queue", q |-> q, unit |-> u]

\* Thread t is inside a Queue() call on queue q.
InQueue(t, q) ==
    /\ ops[t] # <<>>
    /\ Head(ops[t]).op = "queue"
    /\ Head(ops[t]).q = q

\* An opaque call that returns, and one that may fail and make the
\* function return early.
CallOp(what) == [op |-> "call", what |-> what]
TryOp(what) == [op |-> "try", what |-> what]

\* gatherBackend.Queue: the backend of the addons queues on the inspect
\* queue (wq: g.inspectQueue).
BackendQueueGather(u) == QueueOp("gather", u)

BackendQueue(u) == QueueOp("inspect", u)

\* gatherBackend.GatherResource: calls g.gatherResource(gvr, name).
GatherResource(r, namespace, name) ==
    [op |-> "gatherResource", r |-> r, namespace |-> namespace, name |-> name]

RECURSIVE QueueNodeLogs(_, _, _)
QueueNodeLogs(namespace, dataDir, nodes) ==
    IF nodes = <<>> THEN <<>>
    ELSE <<BackendQueue(GatherNodeLogsUnit(namespace, Head(nodes), dataDir))>>
         \o QueueNodeLogs(namespace, dataDir, Tail(nodes))

\* RookAddon.gatherCommands: find the tools pod and create the commands
\* directory (return on error), queue "ceph osd blocklist ls", run
\* "ceph status".
gatherCommands(namespace) ==
    << TryOp("findPod"),
       BackendQueue(GatherCommandUnit("ceph osd blocklist ls")),
       CallOp("ceph status") >>

\* RookAddon.gatherLogs: find the nodes (return on error), queue
\* gatherNodeLogs for every node.
gatherLogs(namespace, dataDir) ==
    <<TryOp("findNodesToGather")>> \o QueueNodeLogs(namespace, dataDir, Nodes)

\* gatherResources: g.listResources(r, namespace, opts) with opts.Limit
\* and opts.Continue.
ListOp(r, namespace, limit, continue) ==
    [op |-> "list", r |-> r, namespace |-> namespace, limit |-> limit,
     continue |-> continue]

\* The operations a work function performs when it is invoked.
UnitOps(u) ==
    CASE u.kind = "fn" -> <<CallOp("fn")>>
      [] u.kind = "gatherResources" ->
            <<ListOp(u.r, u.namespace, PageLimit, 0)>>
      [] u.kind = "gatherCommands" -> gatherCommands(u.namespace)
      [] u.kind = "gatherCommand" -> <<CallOp(u.command)>>
      [] u.kind = "gatherLogs" -> gatherLogs(u.namespace, u.dataDir)
      [] u.kind = "gatherNodeLogs" -> <<[op |-> "gatherNodeLogs", node |-> u.node]>>
      [] u.kind = "gatherContainerLog" ->
            <<TryOp("Stream"),
              [op |-> "createContainerLog", container |-> u.container,
               which |-> IF u.previous THEN "previous" ELSE "current"]>>
      [] OTHER -> <<>>

\* unstructured.NestedFieldNoCopy: walk the fields down the maps; not
\* found when a key is missing, an error when a value on the way is not a
\* map.
RECURSIVE NestedFieldNoCopy(_, _)
NestedFieldNoCopy(obj, fields) ==
    IF fields = <<>> THEN [val |-> obj, found |-> TRUE, err |-> FALSE]
    ELSE IF obj.kind # "map" THEN [val |-> obj, found |-> FALSE, err |-> TRUE]
    ELSE IF Head(fields) \notin DOMAIN obj.v
            THEN [val |-> obj, found |-> FALSE, err |-> FALSE]
    ELSE NestedFieldNoCopy(obj.v[Head(fields)], Tail(fields))

\* unstructured.NestedString and NestedSlice: the value of the kind
\* asked for, an error when the value found is of another kind.
Nested(kind, obj, fields) ==
    LET f == NestedFieldNoCopy(obj, fields) IN
        IF ~f.found \/ f.err THEN [val |-> <<>>, found |-> FALSE, err |-> f.err]
        ELSE IF f.val.kind = kind THEN [val |-> f.val.v, found |-> TRUE, err |-> FALSE]
        ELSE [val |-> <<>>, found |-> FALSE, err |-> TRUE]

pvcsInspectFound(o, pvc) ==
    LET gather(field, r) ==
            LET name == Nested("string", pvc.Object, <<"spec", field>>) IN
                IF name.err THEN <<>>
                ELSE IF ~name.found THEN <<>>
                ELSE <<GatherResource(r, "", name.val)>>
    IN  IF Len(o.Namespaces) = 0 THEN [calls |-> <<>>, err |-> Nil]
        ELSE [calls |-> gather("volumeName", ResourceInfo("", "persistentvolumes", FALSE))
                        \o gather("storageClassName",
                                  ResourceInfo("storage.k8s.io", "storageclasses", FALSE)),
              err |-> Nil]

\* pvcsAddon.Inspect: nothing without a namespace filter; else
\* gatherPersistentVolume and gatherStorageClass, each calling
\* GatherResource when the name is found and not empty. calls are the
\* calls it makes, err is what it returns.
pvcsInspect(o, pvc) ==
    LET gather(field, r) ==
            LET name == Nested("string", pvc.Object, <<"spec", field>>) IN
                IF name.err THEN <<>>
                ELSE IF ~name.found \/ name.val = "" THEN <<>>
                ELSE <<GatherResource(r, "", name.val)>>
    IN  IF Len(o.Namespaces) = 0 THEN [calls |-> <<>>, err |-> Nil]
        ELSE [calls |-> gather("volumeName", ResourceInfo("", "persistentvolumes", FALSE))
                        \o gather("storageClassName",
                                  ResourceInfo("storage.k8s.io", "storageclasses", FALSE)),
              err |-> Nil]

containerHasPreviousLogFound(status) ==
    LET containerID == Nested("string", status, <<"lastState", "terminated", "containerID">>)
    IN  IF containerID.err \/ ~containerID.found THEN FALSE
        ELSE TRUE

\* containerHasPreviousLog
containerHasPreviousLog(status) ==
    LET containerID == Nested("string", status, <<"lastState", "terminated", "containerID">>)
    IN  IF containerID.err \/ ~containerID.found THEN FALSE
        ELSE containerID.val # ""

\* LogsAddon.listContainers: the entries of status.containerStatuses, then
\* of status.initContainerStatuses, that are maps with a string name; a
\* key that is missing or not a slice is skipped.
listContainers(pod) ==
    LET RECURSIVE containers(_)
        containers(statuses) ==
            IF statuses = <<>> THEN <<>>
            ELSE LET status == Head(statuses)
                     name == Nested("string", status, <<"name">>)
                 IN  (IF status.kind # "map" \/ name.err \/ ~name.found THEN <<>>
                      ELSE <<[Namespace |-> pod.ns, Pod |-> pod.name, Name |-> name.val,
                              HasPreviousLog |-> containerHasPreviousLog(status)]>>)
                     \o containers(Tail(statuses))
        list(key) ==
            LET statuses == Nested("slice", pod.Object, <<"status", key>>) IN
                IF statuses.err \/ ~statuses.found THEN <<>> ELSE containers(statuses.val)
    IN  list("containerStatuses") \o list("initContainerStatuses")

\* LogsAddon.Inspect: for every container queue a unit gathering the
\* current log and, when the container has a previous log, a unit
\* gathering the previous log. calls are the calls it makes, err is what
\* it returns.
logsInspect(pod) ==
    LET RECURSIVE queue(_)
        queue(containers) ==
            IF containers = <<>> THEN <<>>
            ELSE LET container == Head(containers) IN
                    <<BackendQueue(GatherContainerLogUnit(container, FALSE))>>
                    \o (IF container.HasPreviousLog
                           THEN <<BackendQueue(GatherContainerLogUnit(container, TRUE))>>
                           ELSE <<>>)
                    \o queue(Tail(containers))
    IN  [calls |-> queue(listContainers(pod)), err |-> Nil]

isFileChangedErrorExitCode(err, stderr) ==
    err.kind = "ExitError" /\ err.code = 1

\* RemoteDirectory.isFileChangedError: an *exec.ExitError with exit code 1
\* and a stderr matching (?im)^tar: .+ file changed as we read it$. A
\* line of stderr is kept as three pieces, <<start, middle, end>>: it
\* matches when, whatever the case, it starts with "tar: ", ends with
\* " file changed as we read it" and has at least one character between.
isFileChangedError(err, stderr) ==
    LET ToLower(x) == CASE x = "TAR: " -> "tar: "
                        [] x = " File Changed As We Read It" -> " file changed as we read it"
                        [] OTHER -> x
        MatchString(line) == /\ ToLower(line[1]) = "tar: "
                             /\ line[2] # ""
                             /\ ToLower(line[3]) = " file changed as we read it"
    IN  /\ err.kind = "ExitError"
        /\ err.code = 1
        /\ \E i \in DOMAIN stderr : MatchString(stderr[i])

\* RemoteDirectory.Gather: the error of the first step that fails to
\* start; else, after waiting for the local tar and then for the remote
\* tar, the remote error unless it is a file-changed error, else the
\* local error, else nil.
RemoteDirectoryGather(start, localErr, remoteErr, stderr) ==
    IF start # "ok" THEN <<start>>
    ELSE IF remoteErr.kind # "nil" /\ ~isFileChangedError(remoteErr, stderr)
            THEN <<"remote tar error", remoteErr, stderr>>
    ELSE IF localErr.kind # "nil" THEN <<"local tar error", localErr>>
    ELSE <<"nil">>

\* RookAddon.Inspect: queue gatherCommands, and gatherLogs when the log
\* collector is enabled.
rookInspect(cephcluster) ==
    <<BackendQueue(GatherCommandsUnit(cephcluster.ns))>>
    \o (IF cephcluster.spec.logCollector
           THEN <<BackendQueue(GatherLogsUnit(cephcluster.ns,
                                              cephcluster.spec.dataDirHostPath))>>
           ELSE <<>>)

InspectRookOnly(o, r, item) ==
    IF Addon(o, r) = "rook" THEN rookInspect(item) ELSE <<>>

\* gatherResources: addon := g.addons[r.Name()]; addon.Inspect(item)
Inspect(o, r, item) ==
    CASE Addon(o, r) = "pvcs" -> pvcsInspect(o, item).calls
      [] Addon(o, r) = "logs" -> logsInspect(item).calls
      [] Addon(o, r) = "rook" -> rookInspect(item)
      [] OTHER -> <<>>

\* What is done for one item: addResource, and for the winner
\* dumpResource, then Inspect when in gatherResources.
ItemOp(r, item, inspect) ==
    [op |-> "item", r |-> r, item |-> item, inspect |-> inspect]

DumpOp(r, item) == [op |-> "dump", r |-> r, item |-> item]

RECURSIVE ItemOps(_, _)
ItemOps(r, items) ==
    IF items = <<>> THEN <<>>
    ELSE <<ItemOp(r, Head(items), TRUE)>> \o ItemOps(r, Tail(items))

(***************************************************************************)
(* WorkQueue                                                               *)
(***************************************************************************)
\* NewWorkQueue: an unbuffered channel, no worker yet.
NewWorkQueue ==
    /\ wst = [w \in WorkerThreads |-> [st |-> "new", unit |-> NoUnit]]
    /\ closed = [q \in Queues |-> FALSE]
    /\ chClosed = [q \in Queues |-> FALSE]
    /\ wg = [q \in Queues |-> 0]
    /\ qerr = [q \in Queues |-> Nil]
    /\ closes = [q \in Queues |-> 0]
    /\ closeCalls = [q \in Queues |-> 0]
    /\ accepted = EmptyBag
    /\ ran = EmptyBag
    /\ errLog = [q \in Queues |-> <<>>]
    /\ waitRet = [q \in Queues |-> NotReturned]

\* Start: wg.Add(1) and a goroutine per worker; the goroutine blocks in
\* its range loop.
StartWorkers(w, qs) ==
    [x \in WorkerThreads |->
        IF x[1] \in qs THEN [st |-> "idle", unit |-> NoUnit] ELSE w[x]]

StartWg(g, qs) == [q \in Queues |-> IF q \in qs THEN g[q] + Workers ELSE g[q]]

\* The worker invokes each function it receives once (err := work()).
InvokedTwice(q, u) == SetToBag({u}) (+) SetToBag({u})

Invoked(q, u) == SetToBag({u})

\* Queue: q.queue <- work. The send completes when worker <<q, i>>
\* receives the function in its range loop.
Queue(t, q, i) ==
    /\ Alive
    /\ InQueue(t, q)
    /\ ~chClosed[q]
    /\ wst[<<q, i>>].st = "idle"
    /\ LET u == Head(ops[t]).unit IN
        /\ wst' = [wst EXCEPT ![<<q, i>>] = [st |-> "busy", unit |-> u]]
        /\ ops' = [ops EXCEPT ![t] = Tail(@), ![<<q, i>>] = UnitOps(u)]
        /\ accepted' = accepted (+) SetToBag({u})
        /\ ran' = ran (+) Invoked(q, u)
    /\ UNCHANGED <<closed, chClosed, wg, qerr, panicked, closes, closeCalls,
                   errLog, waitRet, nfuncs, gvars>>
    /\ UNCHANGED lvars
    /\ UNCHANGED xvars

\* Queue on a closed channel: the send panics ("send on closed channel"),
\* also when the sender was already blocked when the channel was closed.
QueuePanic(t, q) ==
    /\ Alive
    /\ InQueue(t, q)
    /\ chClosed[q]
    /\ panicked' = "send on closed channel"
    /\ UNCHANGED <<ops, wst, closed, chClosed, wg, qerr, closes, closeCalls,
                   accepted, ran, errLog, waitRet, nfuncs,
                   gvars>>
    /\ UNCHANGED lvars
    /\ UNCHANGED xvars

\* setFirstError: under the mutex, keep the first error.
setLastError(q, err) == [qerr EXCEPT ![q] = err]

setFirstError(q, err) ==
    IF qerr[q] = Nil THEN [qerr EXCEPT ![q] = err] ELSE qerr

\* firstError: under the mutex, read the error.
firstError(q) == qerr[q]

\* The worker's loop body after work() returned:
\* if err != nil { q.setFirstError(err) }, then back to the range loop.
WorkReturn(q, i) ==
    /\ Alive
    /\ wst[<<q, i>>].st = "busy"
    /\ ops[<<q, i>>] = <<>>
    /\ LET err == Err(wst[<<q, i>>].unit) IN
        /\ qerr' = IF err # Nil THEN setFirstError(q, err) ELSE qerr
        /\ errLog' = IF err # Nil
                        THEN [errLog EXCEPT ![q] = Append(@, err)]
                        ELSE errLog
    /\ wst' = [wst EXCEPT ![<<q, i>>] = [st |-> "idle", unit |-> NoUnit]]
    /\ UNCHANGED <<ops, closed, chClosed, wg, panicked, closes, closeCalls,
                   accepted, ran, waitRet, nfuncs,
                   gvars>>
    /\ listLog' = [listLog EXCEPT ![<<q, i>>] = <<>>]
    /\ UNCHANGED discovered
    /\ count' = [count EXCEPT ![<<q, i>>] = 0]
    /\ agent' = IF wst[<<q, i>>].unit.kind = "gatherNodeLogs"
                    THEN [agent EXCEPT ![wst[<<q, i>>].unit.node] = <<>>]
                    ELSE agent
    /\ UNCHANGED <<gets, input, output, local>>

\* The range loop ends when the channel is closed; defer q.wg.Done().
WorkerExit(q, i) ==
    /\ Alive
    /\ wst[<<q, i>>].st = "idle"
    /\ chClosed[q]
    /\ wst' = [wst EXCEPT ![<<q, i>>] = [st |-> "exited", unit |-> NoUnit]]
    /\ wg' = [wg EXCEPT ![q] = @ - 1]
    /\ UNCHANGED <<ops, closed, chClosed, qerr, panicked, closes, closeCalls,
                   accepted, ran, errLog, waitRet, nfuncs,
                   gvars>>
    /\ UNCHANGED lvars
    /\ UNCHANGED xvars

\* An opaque call made by a work function (a remote command, a client's
\* function body): it returns.
Call(t) ==
    /\ Alive
    /\ ops[t] # <<>>
    /\ Head(ops[t]).op = "call"
    /\ ops' = [ops EXCEPT ![t] = Tail(@)]
    /\ UNCHANGED <<wst, closed, chClosed, wg, qerr, panicked, closes,
                   closeCalls, accepted, ran, errLog, waitRet, nfuncs,
                   gvars>>
    /\ UNCHANGED lvars
    /\ UNCHANGED xvars

\* Close: if !q.closed { close(q.queue); q.closed = true }
ShouldCloseAlways(q) == TRUE

ShouldClose(q) == ~closed[q]

\* Close, under the mutex. Closing a closed channel panics.
Close(q) ==
    /\ closeCalls' = [closeCalls EXCEPT ![q] = @ + 1]
    /\ IF ShouldClose(q)
          THEN /\ closes' = [closes EXCEPT ![q] = @ + 1]
               /\ closed' = [closed EXCEPT ![q] = TRUE]
               /\ IF chClosed[q]
                     THEN /\ panicked' = "close of closed channel"
                          /\ UNCHANGED chClosed
                     ELSE /\ chClosed' = [chClosed EXCEPT ![q] = TRUE]
                          /\ UNCHANGED panicked
          ELSE UNCHANGED <<closes, closed, chClosed, panicked>>

\* Wait: q.wg.Wait() returns when the counter is zero.
WaitReadyAlways(q) == TRUE

WaitReady(q) == wg[q] = 0

(***************************************************************************)
(* Gatherer                                                                *)
(***************************************************************************)
GatherThreads == {MainThread} \cup WorkerThreads

\* New: empty resources, nothing written yet, Gather() not called.
New ==
    /\ pc = "new"
    /\ found = <<>>
    /\ prepErr = "nil"
    /\ ret = <<"none">>
    /\ resources = {}
    /\ files = {}
    /\ addCalls = EmptyBag
    /\ wins = EmptyBag
    /\ writes = EmptyBag
    /\ discovered = FALSE
    /\ listLog = [w \in WorkerThreads |-> <<>>]
    /\ count = [w \in WorkerThreads |-> 0]
    /\ agent = [n \in 1..NumNodes |-> <<>>]
    /\ gets = EmptyBag

\* Count
Count == Cardinality(resources)

RECURSIVE GetNamespaceOps(_)
GetNamespaceOps(namespaces) ==
    IF namespaces = <<>> THEN <<>>
    ELSE <<[op |-> "getNamespace", name |-> Head(namespaces)]>>
         \o GetNamespaceOps(Tail(namespaces))

\* prepare: gatherNamespaces when there is a namespace filter, then
\* listAPIResources and the queuing of the work.
prepareQueueFirst(o) ==
    <<QueueOp("gather", GatherResourcesUnit(NamespacesResource, NamespaceAll))>>
    \o GetNamespaceOps(o.Namespaces) \o <<[op |-> "listAPIResources"]>>

prepare(o) == GetNamespaceOps(o.Namespaces) \o <<[op |-> "listAPIResources"]>>

\* Gather: start both queues, then prepare.
GatherStart ==
    /\ Alive
    /\ pc = "new"
    /\ wst' = StartWorkers(wst, Queues)
    /\ wg' = StartWg(wg, Queues)
    /\ ops' = [ops EXCEPT ![MainThread] = prepare(opts)]
    /\ pc' = "prepare"
    /\ UNCHANGED <<closed, chClosed, qerr, panicked, closes, closeCalls,
                   accepted, ran, errLog, waitRet, nfuncs>>
    /\ UNCHANGED <<cluster, opts, found, prepErr, ret, resources, files, addCalls,
                   wins, writes>>
    /\ UNCHANGED lvars
    /\ UNCHANGED xvars

\* gatherNamespaces, one namespace of the filter: get it; skip it when
\* not found, fail on another error, else add and dump it.
gatherNamespaces(t) ==
    /\ Alive
    /\ ops[t] # <<>>
    /\ Head(ops[t]).op = "getNamespace"
    /\ LET name == Head(ops[t]).name IN
        \/ /\ name \in ClusterNamespaces(cluster)
           /\ found' = Append(found, name)
           /\ ops' = [ops EXCEPT ![t] =
                        <<ItemOp(NamespacesResource,
                                 [ns |-> "", name |-> name, spec |-> [phase |-> "Active"]],
                                 FALSE)>> \o Tail(@)]
           /\ UNCHANGED prepErr
        \/ /\ name \notin ClusterNamespaces(cluster)
           /\ ops' = [ops EXCEPT ![t] = Tail(@)]
           /\ UNCHANGED <<found, prepErr>>
        \/ /\ prepErr' = "cannot get namespace"
           /\ ops' = [ops EXCEPT ![t] = <<>>]
           /\ UNCHANGED found
    /\ UNCHANGED <<wqvars, cluster, opts, pc, ret, resources, files, addCalls, wins,
                   writes>>
    /\ UNCHANGED lvars
    /\ UNCHANGED xvars

RECURSIVE QueueResourcesFirstNamespace(_, _, _)
QueueResourcesFirstNamespace(rs, namespaces, j) ==
    IF rs = <<>> THEN <<>>
    ELSE <<QueueOp("gather", GatherResourcesUnit(Head(rs), namespaces[1]))>>
         \o QueueResourcesFirstNamespace(Tail(rs), namespaces, 1)

RECURSIVE QueueResources(_, _, _)
\* prepare: for each resource, for each namespace, g.gatherQueue.Queue(...)
QueueResources(rs, namespaces, j) ==
    IF rs = <<>> THEN <<>>
    ELSE IF j > Len(namespaces) THEN QueueResources(Tail(rs), namespaces, 1)
    ELSE <<QueueOp("gather", GatherResourcesUnit(Head(rs), namespaces[j]))>>
         \o QueueResources(rs, namespaces, j + 1)

\* prepare: there is a namespace filter and gatherNamespaces found none
\* of its namespaces.
NothingToGatherNever(o, namespaces) == FALSE

NothingToGather(o, namespaces) ==
    Len(o.Namespaces) > 0 /\ Len(namespaces) = 0

\* prepare after gatherNamespaces: nothing to do when no namespace of
\* the filter was found; else list the API resources (fail on error) and
\* queue gatherResources for every resource and namespace.
prepareResources(t) ==
    /\ Alive
    /\ ops[t] # <<>>
    /\ Head(ops[t]).op = "listAPIResources"
    /\ IF NothingToGather(opts, found)
          THEN /\ ops' = [ops EXCEPT ![t] = <<>>]
               /\ UNCHANGED <<prepErr, discovered>>
          ELSE /\ discovered' = TRUE
               /\ \/ /\ prepErr' = "cannot list api resources"
                     /\ ops' = [ops EXCEPT ![t] = <<>>]
                  \/ /\ ops' = [ops EXCEPT ![t] =
                                  QueueResources(listAPIResources(cluster, opts),
                                                 IF Len(found) = 0
                                                    THEN <<NamespaceAll>>
                                                    ELSE found, 1)]
                     /\ UNCHANGED prepErr
    /\ UNCHANGED listLog
    /\ UNCHANGED <<wqvars, cluster, opts, pc, found, ret, resources, files, addCalls,
                   wins, writes>>
    /\ UNCHANGED xvars

\* Gather: if err := g.prepare(); err != nil { return err }
PrepareReturns ==
    /\ Alive
    /\ pc = "prepare"
    /\ ops[MainThread] = <<>>
    /\ IF prepErr # "nil"
          THEN ret' = <<prepErr>> /\ pc' = "defer close gather"
          ELSE pc' = "close gather" /\ UNCHANGED ret
    /\ UNCHANGED <<ops, wqvars, cluster, opts, found, prepErr, resources, files,
                   addCalls, wins, writes>>
    /\ UNCHANGED lvars
    /\ UNCHANGED xvars

\* Gather after prepare, and its deferred function: where each Close()
\* and Wait() call leads.
AfterCloseNoWait ==
    [x \in {"close gather", "close inspect", "defer close gather",
            "defer close inspect"} |->
        CASE x = "close gather" -> "close inspect"
          [] x = "close inspect" -> "wait inspect"
          [] x = "defer close gather" -> "defer wait gather"
          [] x = "defer close inspect" -> "defer wait inspect"]

AfterClose ==
    [x \in {"close gather", "close inspect", "defer close gather",
            "defer close inspect"} |->
        CASE x = "close gather" -> "wait gather"
          [] x = "close inspect" -> "wait inspect"
          [] x = "defer close gather" -> "defer wait gather"
          [] x = "defer close inspect" -> "defer wait inspect"]

AfterWaitNoInspect ==
    [x \in {"wait gather", "wait inspect", "defer wait gather",
            "defer wait inspect"} |->
        CASE x = "wait gather" -> "close inspect"
          [] x = "wait inspect" -> "defer close gather"
          [] x = "defer wait gather" -> "done"
          [] x = "defer wait inspect" -> "done"]

AfterWait ==
    [x \in {"wait gather", "wait inspect", "defer wait gather",
            "defer wait inspect"} |->
        CASE x = "wait gather" -> "close inspect"
          [] x = "wait inspect" -> "defer close gather"
          [] x = "defer wait gather" -> "defer close inspect"
          [] x = "defer wait inspect" -> "done"]

QueueOf(x) ==
    IF x \in {"close gather", "wait gather", "defer close gather",
              "defer wait gather"}
       THEN "gather" ELSE "inspect"

\* Gather: g.gatherQueue.Close(), g.inspectQueue.Close(), also deferred.
GatherClose ==
    /\ Alive
    /\ pc \in DOMAIN AfterClose
    /\ Close(QueueOf(pc))
    /\ pc' = AfterClose[pc]
    /\ UNCHANGED <<ops, wst, wg, qerr, accepted, ran, errLog, waitRet, nfuncs>>
    /\ UNCHANGED <<cluster, opts, found, prepErr, ret, resources, files, addCalls,
                   wins, writes>>
    /\ UNCHANGED lvars
    /\ UNCHANGED xvars

\* Gather: the error returned after both queues were waited for, nil or
\* an error wrapping the gather error and the inspect error.
GatherErrorIfBoth(gatherErr, inspectErr) ==
    IF gatherErr # Nil /\ inspectErr # Nil
       THEN <<"failed to gather", gatherErr, inspectErr>>
       ELSE <<"nil">>

GatherError(gatherErr, inspectErr) ==
    IF gatherErr # Nil \/ inspectErr # Nil
       THEN <<"failed to gather", gatherErr, inspectErr>>
       ELSE <<"nil">>

\* Gather: gatherErr := g.gatherQueue.Wait(), inspectErr :=
\* g.inspectQueue.Wait() and the return value, also the deferred waits.
GatherWait ==
    /\ Alive
    /\ pc \in DOMAIN AfterWait
    /\ WaitReady(QueueOf(pc))
    /\ pc' = AfterWait[pc]
    /\ waitRet' = IF waitRet[QueueOf(pc)] = NotReturned
                     THEN [waitRet EXCEPT ![QueueOf(pc)] =
                              Returned(firstError(QueueOf(pc)))]
                     ELSE waitRet
    /\ ret' = IF pc = "wait inspect"
                 THEN GatherError(waitRet'["gather"][1], waitRet'["inspect"][1])
                 ELSE ret
    /\ UNCHANGED <<ops, wst, closed, chClosed, wg, qerr, panicked, closes,
                   closeCalls, accepted, ran, errLog, nfuncs>>
    /\ UNCHANGED <<cluster, opts, found, prepErr, resources, files, addCalls, wins,
                   writes>>
    /\ UNCHANGED lvars
    /\ UNCHANGED xvars

\* gatherResources: fall back to a full list only if this was an attempt
\* to get the next page and the resource expired.
ShouldFallBackAlways(continue, result) == TRUE

ShouldFallBack(continue, result) == continue # 0 /\ result = "expired"

\* gatherResources: opts.Continue = list.GetContinue(); the loop ends
\* when the token is empty.
NextList(o, continue) ==
    IF continue = 0 THEN <<>>
    ELSE <<ListOp(o.r, o.namespace, o.limit, continue)>>

\* gatherResources, one round of its loop: listResources with the limit
\* and the continuation token. An error ends the function, except that
\* an expired continuation token makes it list again without limit and
\* token. The items of the page are processed, then the next page is
\* listed if the server returned a continuation token.
listResources(t) ==
    /\ Alive
    /\ ops[t] # <<>>
    /\ Head(ops[t]).op = "list"
    /\ LET o == Head(ops[t]) IN
        \E result \in {"ok", "expired", "error"} :
            /\ listLog' = [listLog EXCEPT ![t] =
                             Append(@, [limit |-> o.limit, continue |-> o.continue,
                                        result |-> result])]
            /\ ops' = [ops EXCEPT ![t] =
                  CASE result = "ok" ->
                          ItemOps(o.r, ListPage(cluster, o.r, o.namespace,
                                                o.limit, o.continue))
                          \o NextList(o, GetContinue(cluster, o.r, o.namespace,
                                                     o.limit, o.continue))
                    [] result # "ok" /\ ShouldFallBack(o.continue, result) ->
                          <<ListOp(o.r, o.namespace, 0, 0)>>
                    [] OTHER -> <<>>]
    /\ UNCHANGED <<wqvars, gvars, discovered>>
    /\ UNCHANGED xvars

\* addResource, under the mutex: true when the key was not in resources.
addResourceAlways(key) == TRUE

addResource(key) == key \notin resources

CountEveryItem(c, won) == c + 1

\* gatherResources: count += 1 after g.addResource(key) returned true.
CountAfter(c, won) == IF won THEN c + 1 ELSE c

\* gatherResources and gatherNamespaces: if !g.addResource(key) skip the
\* item; the winner dumps it and (in gatherResources) inspects it.
addItem(t) ==
    /\ Alive
    /\ ops[t] # <<>>
    /\ Head(ops[t]).op = "item"
    /\ LET o == Head(ops[t])
           key == keyFromResource(o.r, o.item)
       IN
        /\ addCalls' = addCalls (+) SetToBag({key})
        /\ count' = IF o.inspect
                       THEN [count EXCEPT ![t] = CountAfter(@, addResource(key))]
                       ELSE count
        /\ IF addResource(key)
              THEN /\ resources' = resources \cup {key}
                   /\ wins' = wins (+) SetToBag({key})
                   /\ ops' = [ops EXCEPT ![t] =
                                <<DumpOp(o.r, o.item)>>
                                \o (IF o.inspect THEN Inspect(opts, o.r, o.item) ELSE <<>>)
                                \o Tail(@)]
              ELSE /\ ops' = [ops EXCEPT ![t] = Tail(@)]
                   /\ UNCHANGED <<resources, wins>>
    /\ UNCHANGED <<wqvars, cluster, opts, pc, found, prepErr, ret, files, writes>>
    /\ UNCHANGED lvars
    /\ UNCHANGED <<agent, gets, input, output, local>>

\* The callers of dumpResource log its error and go on with what is left
\* to do.
AbortAfterDumpError(rest) == <<>>

AfterDumpError(rest) == rest

\* dumpResource: createResource may fail, leaving no file; once the file
\* is created it exists whether or not the write fails.
dumpResource(t) ==
    /\ Alive
    /\ ops[t] # <<>>
    /\ Head(ops[t]).op = "dump"
    /\ LET file == createResource(Head(ops[t]).r, Head(ops[t]).item) IN
        /\ writes' = writes (+) SetToBag({file})
        /\ \/ /\ files' = files \cup {file}
              /\ ops' = [ops EXCEPT ![t] = Tail(@)]
           \/ /\ files' = files \cup {file}
              /\ ops' = [ops EXCEPT ![t] = AfterDumpError(Tail(@))]
           \/ /\ UNCHANGED files
              /\ ops' = [ops EXCEPT ![t] = AfterDumpError(Tail(@))]
    /\ UNCHANGED <<wqvars, cluster, opts, pc, found, prepErr, ret, resources, addCalls,
                   wins>>
    /\ UNCHANGED lvars
    /\ UNCHANGED xvars

\* gatherResource returning after addResource without getting the object.
gatherResourceNoGet(t) ==
    /\ Alive
    /\ ops[t] # <<>>
    /\ Head(ops[t]).op = "gatherResource"
    /\ LET o == Head(ops[t])
           r == ResourceInfo(o.r.group, o.r.resource, o.namespace # "")
           key == keyFromName(r, o.namespace, o.name)
       IN
        /\ addCalls' = addCalls (+) SetToBag({key})
        /\ resources' = resources \cup {key}
        /\ wins' = IF addResource(key) THEN wins (+) SetToBag({key}) ELSE wins
        /\ ops' = [ops EXCEPT ![t] = Tail(@)]
    /\ UNCHANGED <<wqvars, cluster, opts, pc, found, prepErr, ret, files, writes>>
    /\ UNCHANGED lvars
    /\ UNCHANGED xvars

\* gatherResource: the resource is namespaced when the name has a
\* namespace; if !g.addResource(key) return, else get the resource.
gatherResource(t) ==
    /\ Alive
    /\ ops[t] # <<>>
    /\ Head(ops[t]).op = "gatherResource"
    /\ LET o == Head(ops[t])
           r == ResourceInfo(o.r.group, o.r.resource, o.namespace # "")
           key == keyFromName(r, o.namespace, o.name)
       IN
        /\ addCalls' = addCalls (+) SetToBag({key})
        /\ IF addResource(key)
              THEN /\ resources' = resources \cup {key}
                   /\ wins' = wins (+) SetToBag({key})
                   /\ ops' = [ops EXCEPT ![t] =
                                <<[op |-> "get", r |-> r, namespace |-> o.namespace,
                                   name |-> o.name]>> \o Tail(@)]
              ELSE /\ ops' = [ops EXCEPT ![t] = Tail(@)]
                   /\ UNCHANGED <<resources, wins>>
    /\ UNCHANGED <<wqvars, cluster, opts, pc, found, prepErr, ret, files, writes>>
    /\ UNCHANGED lvars
    /\ UNCHANGED xvars

\* The object the server returns for a get, if it exists.
Existing(r, namespace, name) ==
    SelectSeq(Objects(cluster, r), LAMBDA x : x.ns = namespace /\ x.name = name)

\* getResource called again after it failed.
getResourceRetry(t) ==
    /\ Alive
    /\ ops[t] # <<>>
    /\ Head(ops[t]).op = "get"
    /\ LET o == Head(ops[t])
           got == Existing(o.r, o.namespace, o.name)
           key == keyFromName(o.r, o.namespace, o.name)
       IN
        \/ /\ ~BagIn(<<key, "error">>, gets)
           /\ UNCHANGED ops
           /\ gets' = gets (+) SetToBag({<<key, "error">>})
        \/ /\ got # <<>>
           /\ ops' = [ops EXCEPT ![t] = <<DumpOp(o.r, Head(got))>> \o Tail(@)]
           /\ gets' = gets (+) SetToBag({<<key, "ok">>})
    /\ UNCHANGED <<wqvars, gvars>>
    /\ UNCHANGED lvars
    /\ UNCHANGED <<count, agent, input, output, local>>

\* gatherResource: getResource; on error return, else dumpResource.
getResource(t) ==
    /\ Alive
    /\ ops[t] # <<>>
    /\ Head(ops[t]).op = "get"
    /\ LET o == Head(ops[t])
           got == Existing(o.r, o.namespace, o.name)
           key == keyFromName(o.r, o.namespace, o.name)
       IN
        \/ /\ ops' = [ops EXCEPT ![t] = Tail(@)]
           /\ gets' = gets (+) SetToBag({<<key, "error">>})
        \/ /\ got # <<>>
           /\ ops' = [ops EXCEPT ![t] = <<DumpOp(o.r, Head(got))>> \o Tail(@)]
           /\ gets' = gets (+) SetToBag({<<key, "ok">>})
    /\ UNCHANGED <<wqvars, gvars>>
    /\ UNCHANGED lvars
    /\ UNCHANGED <<count, agent, input, output, local>>

ReturnNoDelete(done) == done

\* gatherNodeLogs: defer agent.Delete() runs when the function returns.
Return(done) == Append(done, "Delete")

\* gatherNodeLogs: what is done with the agent pod when createAgentPod,
\* WaitUntilRunning, CreateAddonDir and RemoteDirectory.Gather end as
\* given ("" for success): return when createAgentPod fails, then defer
\* agent.Delete(); return when the wait or CreateAddonDir fails; the
\* error of Gather is logged.
AgentEvents(create, wait, mkdir, gather) ==
    IF create # "" THEN <<"Create " \o create>>
    ELSE IF wait # "" THEN Return(<<"Create", "WaitUntilRunning " \o wait>>)
    ELSE IF mkdir # "" THEN Return(<<"Create", "WaitUntilRunning", "CreateAddonDir " \o mkdir>>)
    ELSE IF gather # "" THEN Return(<<"Create", "WaitUntilRunning", "CreateAddonDir",
                                      "Gather " \o gather>>)
    ELSE Return(<<"Create", "WaitUntilRunning", "CreateAddonDir", "Gather">>)

\* gatherNodeLogs with each outcome of its calls; agent keeps what it did
\* with the pod of the node until the unit returns to the worker.
gatherNodeLogs(t) ==
    /\ Alive
    /\ ops[t] # <<>>
    /\ Head(ops[t]).op = "gatherNodeLogs"
    /\ \E o \in {<<"error", "", "", "">>, <<"", "error", "", "">>,
                  <<"", "timeout", "", "">>, <<"", "", "error", "">>,
                  <<"", "", "", "error">>, <<"", "", "", "">>} :
            agent' = [agent EXCEPT ![Head(ops[t]).node] =
                         AgentEvents(o[1], o[2], o[3], o[4])]
    /\ ops' = [ops EXCEPT ![t] = Tail(@)]
    /\ UNCHANGED <<wqvars, gvars>>
    /\ UNCHANGED lvars
    /\ UNCHANGED <<count, gets, input, output, local>>

\* gatherContainerLog after the stream was opened: CreateContainerLog may
\* fail, leaving no file; once the file is created it exists whether or
\* not the copy fails.
gatherContainerLog(t) ==
    /\ Alive
    /\ ops[t] # <<>>
    /\ Head(ops[t]).op = "createContainerLog"
    /\ LET o == Head(ops[t])
           file == CreateContainerLog(o.container.Namespace, o.container.Pod,
                                      o.container.Name, o.which)
       IN
        /\ writes' = writes (+) SetToBag({file})
        /\ \/ files' = files \cup {file}
           \/ UNCHANGED files
    /\ ops' = [ops EXCEPT ![t] = Tail(@)]
    /\ UNCHANGED <<wqvars, cluster, opts, pc, found, prepErr, ret, resources, addCalls,
                   wins>>
    /\ UNCHANGED lvars
    /\ UNCHANGED xvars

Try(t) ==
    /\ Alive
    /\ ops[t] # <<>>
    /\ Head(ops[t]).op = "try"
    /\ \/ ops' = [ops EXCEPT ![t] = Tail(@)]
       \/ ops' = [ops EXCEPT ![t] = <<>>]
    /\ UNCHANGED <<wqvars, gvars>>
    /\ UNCHANGED lvars
    /\ UNCHANGED xvars

Init ==
    /\ input = <<>>
    /\ output = <<>>
    /\ local = <<>>
    /\ NewWorkQueue
    /\ New
    /\ ops = [t \in Threads |-> <<>>]
    /\ panicked = "no"
    /\ nfuncs = 0
    /\ \E job \in Jobs :
        /\ cluster = job.cluster
        /\ opts = [Namespaces |-> job.Namespaces, Addons |-> job.Addons]

Next ==
    \/ GatherStart
    \/ gatherNamespaces(MainThread)
    \/ prepareResources(MainThread)
    \/ PrepareReturns
    \/ GatherClose
    \/ GatherWait
    \/ \E t \in GatherThreads : addItem(t)
    \/ \E t \in GatherThreads : dumpResource(t)
    \/ \E t \in WorkerThreads : listResources(t)
    \/ \E t \in WorkerThreads : gatherResource(t)
    \/ \E t \in WorkerThreads : getResource(t)
    \/ \E t \in WorkerThreads : gatherContainerLog(t)
    \/ \E t \in WorkerThreads : gatherNodeLogs(t)
    \/ \E t \in WorkerThreads : Try(t)
    \/ \E t \in WorkerThreads : Call(t)
    \/ \E t \in GatherThreads, q \in Queues, i \in WorkerIds : Queue(t, q, i)
    \/ \E t \in GatherThreads, q \in Queues : QueuePanic(t, q)
    \/ \E q \in Queues, i \in WorkerIds : WorkReturn(q, i)
    \/ \E q \in Queues, i \in WorkerIds : WorkerExit(q, i)

Spec == Init /\ [][Next]_vars

(***************************************************************************)
(* A WorkQueue and its clients: client goroutines submit work functions,   *)
(* call Close() and Wait() in any order on a started queue.                *)
(***************************************************************************)
ClientQueue == "gather"

InitWQ ==
    /\ input = <<>>
    /\ output = <<>>
    /\ local = <<>>
    /\ NewWorkQueue
    /\ New
    /\ cluster = "storage"
    /\ opts = [Namespaces |-> <<>>, Addons |-> NilList]
    /\ ops = [t \in Threads |-> <<>>]
    /\ panicked = "no"
    /\ nfuncs = 0

\* q.Start()
ClientStart ==
    /\ Alive
    /\ wst[<<ClientQueue, 1>>].st = "new"
    /\ wst' = StartWorkers(wst, {ClientQueue})
    /\ wg' = StartWg(wg, {ClientQueue})
    /\ UNCHANGED <<ops, closed, chClosed, qerr, panicked, closes, closeCalls,
                   accepted, ran, errLog, waitRet, nfuncs,
                   gvars>>
    /\ UNCHANGED lvars
    /\ UNCHANGED xvars

Started(q) == wst[<<q, 1>>].st # "new"

\* A client calls q.Queue(fn); fn returns nil or its own error.
ClientCallsQueue(c) ==
    /\ Alive
    /\ Started(ClientQueue)
    /\ ops[c] = <<>>
    /\ nfuncs < MaxFuncs
    /\ nfuncs' = nfuncs + 1
    /\ \E err \in {Nil, nfuncs + 1} :
        ops' = [ops EXCEPT ![c] = <<QueueOp(ClientQueue, FnUnit(nfuncs + 1, err))>>]
    /\ UNCHANGED <<wst, closed, chClosed, wg, qerr, panicked, closes,
                   closeCalls, accepted, ran, errLog, waitRet,
                   gvars>>
    /\ UNCHANGED lvars
    /\ UNCHANGED xvars

\* A client calls q.Close().
ClientCallsClose(c) ==
    /\ Alive
    /\ Started(ClientQueue)
    /\ ops[c] = <<>>
    /\ closeCalls[ClientQueue] < MaxCloses
    /\ Close(ClientQueue)
    /\ UNCHANGED <<ops, wst, wg, qerr, accepted, ran, errLog, waitRet, nfuncs,
                   gvars>>
    /\ UNCHANGED lvars
    /\ UNCHANGED xvars

\* A goroutine blocked in q.Wait() returns the first error.
ClientWaitReturns ==
    /\ Alive
    /\ Started(ClientQueue)
    /\ waitRet[ClientQueue] = NotReturned
    /\ WaitReady(ClientQueue)
    /\ waitRet' = [waitRet EXCEPT ![ClientQueue] = Returned(firstError(ClientQueue))]
    /\ UNCHANGED <<ops, wst, closed, chClosed, wg, qerr, panicked, closes,
                   closeCalls, accepted, ran, errLog, nfuncs,
                   gvars>>
    /\ UNCHANGED lvars
    /\ UNCHANGED xvars

NextWQ ==
    \/ ClientStart
    \/ \E c \in ClientThreads : ClientCallsQueue(c)
    \/ \E c \in ClientThreads : ClientCallsClose(c)
    \/ ClientWaitReturns
    \/ \E c \in ClientThreads, i \in WorkerIds : Queue(c, ClientQueue, i)
    \/ \E c \in ClientThreads : QueuePanic(c, ClientQueue)
    \/ \E i \in WorkerIds : Call(<<ClientQueue, i>>)
    \/ \E i \in WorkerIds : WorkReturn(ClientQueue, i)
    \/ \E i \in WorkerIds : WorkerExit(ClientQueue, i)

SpecWQ == InitWQ /\ [][NextWQ]_vars

(***************************************************************************)
(* The return value of Gather(): Gather() from the return of prepare(),    *)
(* for every error prepare() can return and every error the work functions *)
(* (func() error) can have left in the first-error slots of the queues.    *)
(***************************************************************************)
\* The errors a work function can return, besides nil.
MaxErr == 2

PrepareErrors == {"nil", "cannot get namespace", "cannot list api resources"}

InitReturn ==
    /\ cluster = "storage"
    /\ opts = [Namespaces |-> <<>>, Addons |-> NilList]
    /\ ops = [t \in Threads |-> <<>>]
    /\ wst = StartWorkers([w \in WorkerThreads |-> [st |-> "new", unit |-> NoUnit]],
                          Queues)
    /\ wg = StartWg([q \in Queues |-> 0], Queues)
    /\ closed = [q \in Queues |-> FALSE]
    /\ chClosed = [q \in Queues |-> FALSE]
    /\ qerr \in [Queues -> 0..MaxErr]
    /\ errLog = [q \in Queues |-> IF qerr[q] = Nil THEN <<>> ELSE <<qerr[q]>>]
    /\ panicked = "no"
    /\ closes = [q \in Queues |-> 0]
    /\ closeCalls = [q \in Queues |-> 0]
    /\ accepted = EmptyBag
    /\ ran = EmptyBag
    /\ waitRet = [q \in Queues |-> NotReturned]
    /\ nfuncs = 0
    /\ pc = "prepare"
    /\ found = <<>>
    /\ prepErr \in PrepareErrors
    /\ ret = <<"none">>
    /\ resources = {}
    /\ files = {}
    /\ addCalls = EmptyBag
    /\ wins = EmptyBag
    /\ writes = EmptyBag
    /\ discovered = (prepErr # "cannot get namespace")
    /\ listLog = [w \in WorkerThreads |-> <<>>]
    /\ count = [w \in WorkerThreads |-> 0]
    /\ agent = [n \in 1..NumNodes |-> <<>>]
    /\ gets = EmptyBag
    /\ input = <<>>
    /\ output = <<>>
    /\ local = <<>>

NextReturn ==
    \/ PrepareReturns
    \/ GatherClose
    \/ GatherWait
    \/ \E q \in Queues, i \in WorkerIds : WorkerExit(q, i)

SpecReturn == InitReturn /\ [][NextReturn]_vars

(***************************************************************************)
(* Functions applied on their own: the input is drawn from the arguments   *)
(* the function can be called with, and the function is applied once.      *)
(***************************************************************************)
\* The most events the watch of the agent pod delivers before it ends.
MaxEvents == 2

\* The events of the watch of the agent pod: the pod with its phase
\* added, modified or deleted, a bookmark, or an error status.
WatchEvents ==
    [Type : {"ADDED", "MODIFIED", "DELETED"},
     Phase : {"Pending", "Running", "Succeeded", "Failed"}]
    \cup {[Type |-> "BOOKMARK", Phase |-> ""], [Type |-> "ERROR", Phase |-> ""]}

WaitUntilRunningAnyType(watcherErr, events) ==
    LET RECURSIVE Range(_)
        Range(es) ==
            IF es = <<>> THEN "timeout waiting for agent pod running phase"
            ELSE LET event == Head(es) IN
                CASE event.Phase = "Running" -> "nil"
                  [] event.Phase = "Failed" -> "agent pod failed"
                  [] event.Phase = "Succeeded" -> "agent pod terminated"
                  [] event.Type = "ERROR" -> "agent pod watch error"
                  [] event.Type = "DELETED" -> "agent pod was deleted"
                  [] OTHER -> Range(Tail(es))
    IN  IF watcherErr # "" THEN watcherErr ELSE Range(events)

\* AgentPod.WaitUntilRunning: the error of NewRetryWatcher if any, else
\* range over the result channel of the watcher: nil on an added or
\* modified pod whose phase is Running, an error when its phase is
\* Failed or Succeeded, on an error event and on a deleted event; other
\* events are skipped, and the end of the channel is a timeout.
WaitUntilRunning(watcherErr, events) ==
    LET RECURSIVE Range(_)
        Range(es) ==
            IF es = <<>> THEN "timeout waiting for agent pod running phase"
            ELSE LET event == Head(es) IN
                CASE event.Type \in {"MODIFIED", "ADDED"} /\ event.Phase = "Running" -> "nil"
                  [] event.Type \in {"MODIFIED", "ADDED"} /\ event.Phase = "Failed" ->
                        "agent pod failed"
                  [] event.Type \in {"MODIFIED", "ADDED"} /\ event.Phase = "Succeeded" ->
                        "agent pod terminated"
                  [] event.Type = "ERROR" -> "agent pod watch error"
                  [] event.Type = "DELETED" -> "agent pod was deleted"
                  [] OTHER -> Range(Tail(es))
    IN  IF watcherErr # "" THEN watcherErr ELSE Range(events)

\* The strings without a "/" that the components of a key are drawn from.
NoSlash == {"a", "b"}

FnInputs ==
    [fn : {"shouldGather"},
     Namespaces : {<<>>, <<"ns1">>},
     res : [group : {"", "packages.operators.coreos.com", "events.k8s.io"},
            name : {"pods", "events", "componentstatuses", "packagemanifests"},
            namespaced : BOOLEAN,
            verbs : SUBSET {"get", "list", "watch"}]]
    \cup
    [fn : {"createAddons"},
     Addons : {NilList} \cup
              {[nil |-> FALSE, list |-> l] :
                  l \in UNION {[1..n -> {"pvcs", "logs", "rook", "other"}] : n \in 0..MaxAddons}},
     failing : {"", "logs", "rook"}]
    \cup
    [fn : {"pvcsInspect"},
     Namespaces : {<<>>, <<"ns1">>},
     Object : LET names == {[kind |-> "string", v |-> ""],
                            [kind |-> "string", v |-> "name1"],
                            [kind |-> "other", v |-> 0]}
                  keys == {"volumeName", "storageClassName"}
              IN  {[kind |-> "map", v |-> [spec |-> [kind |-> "map", v |-> m]]] :
                      m \in UNION {[k -> names] : k \in SUBSET keys}}
                  \cup {[kind |-> "map", v |-> [metadata |-> [kind |-> "map", v |-> <<>>]]],
                        [kind |-> "map", v |-> [spec |-> [kind |-> "string", v |-> ""]]]}]
    \cup
    [fn : {"logsInspect"},
     Object :
        LET names == {<<>>} \cup
                     {[name |-> x] : x \in {[kind |-> "string", v |-> "c1"],
                                            [kind |-> "string", v |-> ""],
                                            [kind |-> "other", v |-> 0]}}
            states == {<<>>, [lastState |-> [kind |-> "map", v |-> <<>>]]} \cup
                      {[lastState |-> [kind |-> "map", v |->
                           [terminated |-> [kind |-> "map", v |-> [containerID |-> x]]]]] :
                          x \in {[kind |-> "string", v |-> "containerd://1"],
                                 [kind |-> "string", v |-> ""],
                                 [kind |-> "other", v |-> 0]}}
            entries == {[kind |-> "map", v |-> n @@ l] : n \in names, l \in states}
                       \cup {[kind |-> "string", v |-> "c1"]}
            containers == {<<>>, [containerStatuses |-> [kind |-> "string", v |-> ""]]} \cup
                          {[containerStatuses |-> [kind |-> "slice", v |-> l]] :
                              l \in UNION {[1..n -> entries] : n \in 0..MaxContainers}}
            init == {<<>>, [initContainerStatuses |-> [kind |-> "other", v |-> 0]]} \cup
                    {[initContainerStatuses |-> [kind |-> "slice", v |-> l]] :
                        l \in {<<>>,
                               <<[kind |-> "map", v |-> <<>>]>>,
                               <<[kind |-> "map", v |->
                                   [name |-> [kind |-> "string", v |-> "init"],
                                    lastState |-> [kind |-> "map", v |->
                                       [terminated |-> [kind |-> "map", v |->
                                           [containerID |-> [kind |-> "string",
                                                             v |-> "containerd://2"]]]]]]]>>}}
        IN  {[kind |-> "map", v |-> [status |-> [kind |-> "map", v |-> c @@ i]]] :
                c \in containers, i \in init}
            \cup {[kind |-> "map", v |-> <<>>],
                  [kind |-> "map", v |-> [status |-> [kind |-> "string", v |-> "Running"]]]}]
    \cup
    [fn : {"RemoteDirectoryGather"},
     start : {"ok", "StdoutPipe error", "remote tar start error", "local tar start error"},
     localErr : {[kind |-> "nil", code |-> 0], [kind |-> "ExitError", code |-> 2]},
     remoteErr : {[kind |-> "nil", code |-> 0], [kind |-> "ExitError", code |-> 1],
                  [kind |-> "ExitError", code |-> 2], [kind |-> "other", code |-> 0]},
     stderr : UNION {[1..n ->
                {<<"tar: ", "/var/lib/rook/log/a.log", " file changed as we read it">>,
                 <<"TAR: ", "/var/lib/rook/log/a.log", " File Changed As We Read It">>,
                 <<"tar: ", "", " file changed as we read it">>,
                 <<"tar: ", "/var/lib/rook/log", " Cannot open: No such file or directory">>,
                 <<"kubectl: tar: ", "a.log", " file changed as we read it">>,
                 <<"Error from server (NotFound): ", "pods", " not found">>}] :
                    n \in 0..MaxLines}]
    \cup
    [fn : {"keyFromName"},
     a : [group : {""} \cup NoSlash \cup {"a/b"}, resource : NoSlash \cup {"a/b"},
          namespace : {"", "a"}, name : NoSlash],
     b : [group : {""} \cup NoSlash \cup {"a/b"}, resource : NoSlash \cup {"a/b"},
          namespace : {"", "a"}, name : NoSlash]]
    \cup
    [fn : {"WaitUntilRunning"},
     watcherErr : {"", "error"},
     events : UNION {[1..n -> WatchEvents] : n \in 0..MaxEvents}]

InitFn ==
    /\ NewWorkQueue
    /\ New
    /\ cluster = "storage"
    /\ opts = [Namespaces |-> <<>>, Addons |-> NilList]
    /\ ops = [t \in Threads |-> <<>>]
    /\ panicked = "no"
    /\ nfuncs = 0
    /\ input \in FnInputs
    /\ output = <<>>
    /\ local = <<>>

\* g.shouldGather(gv, res) of a gatherer with the namespace filter of the
\* input.
ApplyShouldGather ==
    /\ input.fn = "shouldGather"
    /\ output = <<>>
    /\ output' = <<shouldGather([Namespaces |-> input.Namespaces], input.res)>>
    /\ UNCHANGED <<ops, wqvars, gvars, lvars, count, agent, gets, input, local>>

\* createAddons(backend) for the Options.Addons of the input.
ApplyCreateAddons ==
    /\ input.fn = "createAddons"
    /\ output = <<>>
    /\ output' = <<createAddons([Addons |-> input.Addons], input.failing)>>
    /\ UNCHANGED <<ops, wqvars, gvars, lvars, count, agent, gets, input, local>>

\* pvcsAddon.Inspect(pvc) of an addon whose backend has the namespace
\* filter of the input.
ApplyPvcsInspect ==
    /\ input.fn = "pvcsInspect"
    /\ output = <<>>
    /\ output' = <<pvcsInspect([Namespaces |-> input.Namespaces],
                               [ns |-> "ns1", name |-> "c1", Object |-> input.Object])>>
    /\ UNCHANGED <<ops, wqvars, gvars, lvars, count, agent, gets, input, local>>

\* LogsAddon.Inspect(pod)
ApplyLogsInspect ==
    /\ input.fn = "logsInspect"
    /\ output = <<>>
    /\ output' = <<logsInspect([ns |-> "ns1", name |-> "pod1", Object |-> input.Object])>>
    /\ UNCHANGED <<ops, wqvars, gvars, lvars, count, agent, gets, input, local>>

\* RemoteDirectory.Gather(src, dst) with the outcomes of the input.
ApplyRemoteDirectoryGather ==
    /\ input.fn = "RemoteDirectoryGather"
    /\ output = <<>>
    /\ output' = <<RemoteDirectoryGather(input.start, input.localErr, input.remoteErr,
                                         input.stderr)>>
    /\ UNCHANGED <<ops, wqvars, gvars, lvars, count, agent, gets, input, local>>

\* The display name, the key and the file path of the object name of
\* namespace of the resource (group, resource), which is namespaced when
\* the name has a namespace, as gatherResource builds them.
KeyAndPath(x) ==
    LET r == ResourceInfo(x.group, x.resource, x.namespace # "") IN
        [display |-> Sprintf(Name(r)),
         key |-> Sprintf(keyFromName(r, x.namespace, x.name)),
         path |-> Filename(createResource(r, [ns |-> x.namespace, name |-> x.name]))]

\* The display names, keys and paths of the two objects of the input.
ApplyKeyFromName ==
    /\ input.fn = "keyFromName"
    /\ output = <<>>
    /\ output' = <<[a |-> KeyAndPath(input.a), b |-> KeyAndPath(input.b)]>>
    /\ UNCHANGED <<ops, wqvars, gvars, lvars, count, agent, gets, input, local>>

\* AgentPod.WaitUntilRunning() with the watcher of the input.
ApplyWaitUntilRunning ==
    /\ input.fn = "WaitUntilRunning"
    /\ output = <<>>
    /\ output' = <<WaitUntilRunning(input.watcherErr, input.events)>>
    /\ UNCHANGED <<ops, wqvars, gvars, lvars, count, agent, gets, input, local>>

NextFn ==
    \/ ApplyWaitUntilRunning
    \/ ApplyKeyFromName
    \/ ApplyShouldGather
    \/ ApplyRemoteDirectoryGather
    \/ ApplyLogsInspect
    \/ ApplyPvcsInspect
    \/ ApplyCreateAddons

SpecFn == InitFn /\ [][NextFn]_vars

(***************************************************************************)
(* localGather: one job per cluster, each in its own goroutine with its    *)
(* own Gatherer. A job is taken by its effects: the keys it adds to the    *)
(* resources of its Gatherer and the files it creates below the directory  *)
(* the Gatherer was created with.                                          *)
(***************************************************************************)
\* The clusters localGather is called with: the context of each and the
\* cluster its rest.Config connects to. The context is empty when no
\* context was given.
LocalClusters ==
    { << [Context |-> "storage", Config |-> "storage"],
         [Context |-> "app", Config |-> "app"] >>,
      << [Context |-> "app", Config |-> "app"],
         [Context |-> "pages", Config |-> "pages"] >>,
      << [Context |-> "storage", Config |-> "storage"],
         [Context |-> "storage", Config |-> "storage"] >>,
      << [Context |-> "", Config |-> "storage"] >> }

\* --directory
Directory == "out"

JobDirectoryShared(directory, context) == directory

\* localGather: directory := filepath.Join(directory, cluster.Context)
JobDirectory(directory, context) == Join(<<directory, context>>)

\* The objects of cluster c with their resources: what a job on c can
\* list or get.
ClusterObjects(c) ==
    LET rs == listAPIResources(c, [Namespaces |-> <<>>, Addons |-> NilList]) IN
        UNION {{[r |-> rs[i], item |-> Objects(c, rs[i])[n]] :
                    n \in DOMAIN Objects(c, rs[i])} : i \in DOMAIN rs}

InitLocal ==
    /\ NewWorkQueue
    /\ New
    /\ cluster = "storage"
    /\ opts = [Namespaces |-> <<>>, Addons |-> NilList]
    /\ ops = [t \in Threads |-> <<>>]
    /\ panicked = "no"
    /\ nfuncs = 0
    /\ input = <<>>
    /\ output = <<>>
    /\ \E clusters \in LocalClusters :
          local = [clusters |-> clusters,
                   g |-> [j \in DOMAIN clusters |->
                             [pc |-> "go", base |-> "", resources |-> {}]],
                   results |-> <<>>,
                   disk |-> {},
                   count |-> <<>>]

\* The goroutine of cluster j: g, err := gather.New(cluster.Config,
\* directory, options); on error it sends the error and returns.
LocalNew(j) ==
    /\ local # <<>>
    /\ j \in DOMAIN local.clusters
    /\ local.g[j].pc = "go"
    /\ \/ local' = [local EXCEPT
                      !.g[j].pc = "exit",
                      !.results = Append(@, [Count |-> 0, Err |-> "New failed"])]
       \/ local' = [local EXCEPT
                      !.g[j] = [pc |-> "Gather",
                                base |-> JobDirectory(Directory,
                                                      local.clusters[j].Context),
                                resources |-> {}]]
    /\ UNCHANGED <<ops, wqvars, gvars, lvars, count, agent, gets, input, output>>

\* g.Gather() of job j gathers an object of its cluster: addResource on
\* the resources of g, then createResource below the base of g.output,
\* which may fail. An existing file of the same path is truncated.
LocalGather(j) ==
    /\ local # <<>>
    /\ j \in DOMAIN local.clusters
    /\ local.g[j].pc = "Gather"
    /\ \E x \in ClusterObjects(local.clusters[j].Config) :
          LET key == keyFromResource(x.r, x.item)
              file == [base |-> local.g[j].base,
                       name |-> Filename(createResource(x.r, x.item)),
                       from |-> local.clusters[j].Config]
          IN  /\ key \notin local.g[j].resources
              /\ \/ local' = [local EXCEPT
                                !.g[j].resources = @ \cup {key},
                                !.disk = {f \in @ : f.base # file.base
                                                     \/ f.name # file.name}
                                         \cup {file}]
                 \/ local' = [local EXCEPT !.g[j].resources = @ \cup {key}]
    /\ UNCHANGED <<ops, wqvars, gvars, lvars, count, agent, gets, input, output>>

\* err = g.Gather(); results <- result{Count: g.Count(), Err: err}; the
\* goroutine returns (wg.Done).
LocalGatherReturns(j) ==
    /\ local # <<>>
    /\ j \in DOMAIN local.clusters
    /\ local.g[j].pc = "Gather"
    /\ \E err \in {"nil", "failed to gather"} :
          local' = [local EXCEPT
                      !.g[j].pc = "exit",
                      !.results = Append(@, [Count |-> Cardinality(local.g[j].resources),
                                             Err |-> err])]
    /\ UNCHANGED <<ops, wqvars, gvars, lvars, count, agent, gets, input, output>>

\* wg.Wait(), close(results) and the sum of the counts; log.Fatal on the
\* first error.
LocalWait ==
    /\ local # <<>>
    /\ local.count = <<>>
    /\ \A j \in DOMAIN local.clusters : local.g[j].pc = "exit"
    /\ LET RECURSIVE Range(_, _)
           \* The loop over the results: log.Fatal at the first error.
           Range(rs, n) ==
               IF rs = <<>> THEN [fatal |-> FALSE, count |-> n]
               ELSE IF Head(rs).Err # "nil" THEN [fatal |-> TRUE, count |-> n]
               ELSE Range(Tail(rs), n + Head(rs).Count)
       IN  local' = [local EXCEPT !.count = <<Range(local.results, 0)>>]
    /\ UNCHANGED <<ops, wqvars, gvars, lvars, count, agent, gets, input, output>>

NextLocal ==
    \/ \E j \in DOMAIN local.clusters : LocalNew(j)
    \/ \E j \in DOMAIN local.clusters : LocalGather(j)
    \/ \E j \in DOMAIN local.clusters : LocalGatherReturns(j)
    \/ LocalWait

SpecLocal == InitLocal /\ [][NextLocal]_vars

(***************************************************************************)
(* Properties of the WorkQueue (checked under SpecWQ).                     *)
(***************************************************************************)
\* The client's work function number id (it returns nil or its error).
FnUnits(id) == {FnUnit(id, Nil), FnUnit(id, id)}

\* Times the work function number id was invoked by a worker.
RanCount(id) == CopiesIn(FnUnit(id, Nil), ran) + CopiesIn(FnUnit(id, id), ran)

\* A client is still inside Queue() with the work function number id.
Pending(id) ==
    \E c \in ClientThreads :
        InQueue(c, ClientQueue) /\ Head(ops[c]).unit \in FnUnits(id)

AllExited(q) == \A i \in WorkerIds : wst[<<q, i>>].st = "exited"

\* C3: every work function handed to Queue() on a started queue is
\* executed exactly once, by exactly one worker: while its Queue() call
\* has not returned it was not invoked, and once it returned it was
\* invoked once, and at most one worker holds it.
C3_ExecutedExactlyOnce ==
    \A id \in 1..nfuncs :
        /\ RanCount(id) = (IF Pending(id) THEN 0 ELSE 1)
        /\ Cardinality({w \in WorkerThreads : wst[w].unit \in FnUnits(id)}) <= 1
        /\ AllExited(ClientQueue) /\ ~Pending(id) =>
              \A w \in WorkerThreads : wst[w].unit \notin FnUnits(id)

\* MaxFuncs functions were submitted by the clients, all were executed
\* and the workers have exited.
C3_Witness ==
    /\ nfuncs = MaxFuncs
    /\ \A id \in 1..nfuncs : RanCount(id) = 1
    /\ AllExited(ClientQueue)

\* C4: Wait() returns only after Close() was called and every worker has
\* exited: then no work function is running and every function whose
\* Queue() call returned was executed.
C4_WaitAfterDrain ==
    waitRet[ClientQueue] # NotReturned =>
        /\ closeCalls[ClientQueue] >= 1
        /\ chClosed[ClientQueue]
        /\ AllExited(ClientQueue)
        /\ \A i \in WorkerIds :
              /\ wst[<<ClientQueue, i>>].unit = NoUnit
              /\ ops[<<ClientQueue, i>>] = <<>>
        /\ ran = accepted

\* Wait() returned after two functions ran.
C4_Witness ==
    /\ waitRet[ClientQueue] # NotReturned
    /\ BagCardinality(ran) >= 2

\* C5: the first-error slot is set once: it holds the first non-nil
\* error passed to setFirstError, Wait() returns it, and Wait() returns
\* nil exactly when no executed function returned a non-nil error.
C5_FirstErrorKept ==
    /\ qerr[ClientQueue] =
          (IF errLog[ClientQueue] = <<>> THEN Nil ELSE Head(errLog[ClientQueue]))
    /\ waitRet[ClientQueue] # NotReturned =>
          /\ waitRet[ClientQueue] = Returned(qerr[ClientQueue])
          /\ (waitRet[ClientQueue] = Returned(Nil) <=> \A u \in BagToSet(ran) : Err(u) = Nil)

\* Two functions failed, and Wait() returned the error of the first.
C5_Witness ==
    /\ Len(errLog[ClientQueue]) >= 2
    /\ waitRet[ClientQueue] = Returned(errLog[ClientQueue][1])
    /\ errLog[ClientQueue][2] # errLog[ClientQueue][1]

\* C6: calling Queue(fn) after Close() is refused with an error and the
\* program does not crash.
C6_QueueAfterCloseRefused ==
    panicked # "send on closed channel"

\* C8: Close() is idempotent: for any number of Close() calls the
\* channel is closed exactly once and no call fails.
C8_CloseOnce ==
    \A q \in Queues :
        /\ closes[q] <= 1
        /\ closeCalls[q] >= 1 => closes[q] = 1 /\ chClosed[q]
        /\ panicked # "close of closed channel"

\* Close() was called twice.
C8_Witness ==
    /\ closeCalls[ClientQueue] >= 2
    /\ closes[ClientQueue] = 1
    /\ panicked = "no"

(***************************************************************************)
(* Properties of Gather() (checked under Spec).                            *)
(***************************************************************************)
\* C1: for every key at most one addResource call returns true, so at
\* most one thread ever writes the file of a given object.
C1_OneWinnerPerKey ==
    /\ \A k \in BagToSet(addCalls) : CopiesIn(k, wins) <= 1
    /\ \A f \in BagToSet(writes) : CopiesIn(f, writes) <= 1

\* A thread that won the key of a persistent volume is about to get or
\* dump it when another caller's addResource has returned false.
C1_Witness ==
    \E t \in WorkerThreads, k \in resources :
        /\ ops[t] # <<>>
        /\ Head(ops[t]).op = "get"
        /\ keyFromName(Head(ops[t]).r, Head(ops[t]).namespace, Head(ops[t]).name) = k
        /\ CopiesIn(k, addCalls) = 2
        /\ CopiesIn(k, wins) = 1

\* C2: when Gather() returns, the object files on disk are exactly the
\* files of the keys in resources, and their number is Count(), also in
\* runs in which a get, a file creation or a write fails.
C2_FilesEqualKeys ==
    pc = "done" =>
        /\ files = {YamlFile(k) : k \in resources}
        /\ Cardinality(files) = Count

\* C7: no thread calls Queue() on a queue after Close() was called on it.
C7_NoQueueAfterClose ==
    [][\A t \in GatherThreads, q \in Queues :
          (ops'[t] # ops[t] /\ InQueue(t, q)') => ~chClosed[q]]_vars

\* C9: Gather() always returns: no state is reachable in which every
\* worker of a queue is blocked inside Queue() with nobody left to
\* receive.
C9_NoQueueBlockedForever ==
    \A q \in Queues : ~(\A i \in WorkerIds : InQueue(<<q, i>>, q))

\* The operations prepare still has to do are all Queue() calls.
OnlyQueuing(t) == \A n \in 1..Len(ops[t]) : ops[t][n].op = "queue"

GatherWorkerBusy == \E i \in WorkerIds : wst[<<"gather", i>>].st = "busy"

\* C10: no gather worker executes a gatherResources unit until prepare()
\* has finished.
C10_PrepareBeforeGather ==
    GatherWorkerBusy => pc # "prepare"

\* C10, amended: no gather worker executes a gatherResources unit until
\* prepare() has finished looking up namespaces and listing API
\* resources; the worker runs it while prepare() is queuing later units.
C10_LookupBeforeGather ==
    (GatherWorkerBusy \/ accepted # EmptyBag) =>
        /\ pc # "new"
        /\ pc = "prepare" => OnlyQueuing(MainThread)

\* A gather worker executes a unit while prepare() has units to queue.
C10_Witness ==
    /\ GatherWorkerBusy
    /\ pc = "prepare"
    /\ ops[MainThread] # <<>>
    /\ OnlyQueuing(MainThread)

\* C11: the inspect queue is closed only after the gather queue was
\* closed and every gather worker has exited, on the normal path and on
\* the deferred path after prepare() failed; so a gather worker calling
\* Queue() for an addon finds the inspect queue open.
C11_InspectClosedAfterGather ==
    /\ chClosed["inspect"] =>
          /\ chClosed["gather"]
          /\ AllExited("gather")
          /\ \A i \in WorkerIds : ops[<<"gather", i>>] = <<>>
    /\ \A i \in WorkerIds :
          InQueue(<<"gather", i>>, "inspect") => ~chClosed["inspect"]

\* The inspect queue was closed after a gather unit queued work on it.
C11_Witness ==
    /\ chClosed["inspect"]
    /\ \E u \in BagToSet(accepted) : u.kind = "gatherCommands"

\* C12: only prepare() queues on the gather queue: no worker of either
\* queue is ever inside Queue() on the gather queue, and the gather
\* workers execute nothing but the gatherResources units of prepare().
C12_OnlyPrepareQueuesGather ==
    /\ \A t \in WorkerThreads : ~InQueue(t, "gather")
    /\ \A i \in WorkerIds :
          wst[<<"gather", i>>].unit.kind \in {"none", "gatherResources"}
    /\ \A i \in WorkerIds :
          wst[<<"inspect", i>>].unit.kind # "gatherResources"

\* A gather worker is queuing work of an addon, on the inspect queue.
C12_Witness ==
    \E i \in WorkerIds :
        /\ InQueue(<<"gather", i>>, "inspect")
        /\ wst[<<"gather", i>>].unit.kind = "gatherResources"

\* C13: workers of the inspect queue never queue more work on the
\* inspect queue.
C13_InspectWorkersNeverQueue ==
    \A i \in WorkerIds : ~InQueue(<<"inspect", i>>, "inspect")

\* A gather unit failed to dump a namespaced object: dumpResource was
\* called for its file and the file was not created.
UnitDumpFailed ==
    \E k \in resources :
        /\ k[1] = "namespaces"
        /\ CopiesIn(YamlFile(k), writes) >= 1
        /\ YamlFile(k) \notin files

\* C14: a failure inside a gather unit or an inspect unit is latched
\* into the first-error slot of the queue that ran the unit and is
\* surfaced through the error Gather() returns.
C14_UnitFailureSurfaced ==
    (pc = "done" /\ UnitDumpFailed) =>
        /\ qerr["gather"] # Nil
        /\ ret # <<"nil">>

\* C15: Gather() returns nil if and only if prepare() succeeded and
\* Wait() of both queues returned nil; when a queue latched an error the
\* returned error wraps the gather error and the inspect error.
C15_GatherReturnValue ==
    pc = "done" =>
        /\ ret = <<"nil">> <=>
              /\ prepErr = "nil"
              /\ waitRet["gather"] = Returned(Nil)
              /\ waitRet["inspect"] = Returned(Nil)
        /\ prepErr # "nil" => ret = <<prepErr>>
        /\ (prepErr = "nil" /\ (qerr["gather"] # Nil \/ qerr["inspect"] # Nil)) =>
              ret = <<"failed to gather", qerr["gather"], qerr["inspect"]>>

\* Gather() returned the error wrapping the error the gather queue
\* latched and the nil error of the inspect queue.
C15_Witness ==
    /\ pc = "done"
    /\ Len(ret) = 3
    /\ ret[2] # Nil
    /\ ret[3] = Nil

\* The files of the namespaces gatherNamespaces found.
NamespaceFiles ==
    {YamlFile(keyFromName(NamespacesResource, "", found[n])) : n \in 1..Len(found)}

\* C16: when a namespace lookup fails with an error other than NotFound
\* or API discovery fails, Gather() returns that error, no
\* gatherResources unit is queued or executed, both queues are closed
\* and their workers have exited when Gather() returns, and the only
\* files written are the dumps of the namespaces found before.
C16_PrepareFailure ==
    /\ prepErr # "nil" => accepted = EmptyBag /\ ran = EmptyBag
    /\ (pc = "done" /\ prepErr # "nil") =>
          /\ ret = <<prepErr>>
          /\ \A q \in Queues : chClosed[q] /\ AllExited(q) /\ wg[q] = 0
          /\ files \subseteq NamespaceFiles
          /\ BagToSet(writes) \subseteq NamespaceFiles

\* Gather() returned the error of the second namespace lookup, after the
\* first namespace was dumped.
C16_Witness ==
    /\ pc = "done"
    /\ prepErr = "cannot get namespace"
    /\ files # {}

\* The namespace filter is not empty and names no namespace of the
\* cluster.
AllMissing ==
    /\ Len(opts.Namespaces) > 0
    /\ \A n \in 1..Len(opts.Namespaces) :
          opts.Namespaces[n] \notin ClusterNamespaces(cluster)

\* C17: when every namespace of the filter is looked up and not found,
\* Gather() returns nil, API discovery is not called, no unit is queued
\* on either queue, Count() is 0 and no file or directory is created.
C17_NothingToGather ==
    (AllMissing /\ prepErr = "nil") =>
        /\ ~discovered
        /\ accepted = EmptyBag
        /\ \A t \in GatherThreads, q \in Queues : ~InQueue(t, q)
        /\ Count = 0
        /\ files = {}
        /\ writes = EmptyBag
        /\ pc = "done" => ret = <<"nil">>

\* Gather() returned after the only namespace of the filter was not
\* found.
C17_Witness ==
    /\ AllMissing
    /\ pc = "done"
    /\ ret = <<"nil">>

\* The namespaces prepare() gathers: the all-namespaces sentinel without
\* a filter, else the namespaces of the filter that exist on the cluster.
NamespacesToGather ==
    IF Len(opts.Namespaces) = 0 THEN {NamespaceAll}
    ELSE {opts.Namespaces[n] : n \in 1..Len(opts.Namespaces)}
         \cap ClusterNamespaces(cluster)

\* One gatherResources unit for every accepted resource and namespace.
ExpectedUnits ==
    LET rs == listAPIResources(cluster, opts) IN
        {GatherResourcesUnit(rs[k], ns) :
            k \in 1..Len(rs), ns \in NamespacesToGather}

QueuedUnits == {u \in BagToSet(accepted) : u.kind = "gatherResources"}

\* C18: prepare() queues exactly one gatherResources unit for each pair
\* of a resource accepted by shouldGather and a namespace of the filter
\* found on the cluster (the all-namespaces sentinel without a filter),
\* none for a missing namespace, and no file appears under the
\* directory of a missing namespace.
C18_OneUnitPerPair ==
    /\ \A u \in QueuedUnits : u \in ExpectedUnits /\ CopiesIn(u, accepted) = 1
    /\ (pc \notin {"new", "prepare"} /\ prepErr = "nil") =>
          QueuedUnits = ExpectedUnits
    /\ \A f \in files \cup BagToSet(writes) :
          f.dir[1] = "namespaces" => f.dir[2] \in ClusterNamespaces(cluster)

\* One namespace of the filter is missing and the claim of the other
\* was gathered.
C18_Witness ==
    /\ opts.Namespaces = <<"ns1", "ns3">>
    /\ pc = "done"
    /\ QueuedUnits = ExpectedUnits
    /\ Cardinality(QueuedUnits) = 1
    /\ \E f \in files : f.dir[1] = "namespaces" /\ f.dir[2] = "ns1"

\* The gather worker has finished the gatherResources call of its unit.
FinishedUnit(t) ==
    /\ wst[t].st = "busy"
    /\ wst[t].unit.kind = "gatherResources"
    /\ ops[t] = <<>>

\* The items of the n-th listResources call of the unit worker t runs.
LoggedPage(t, n) ==
    ListPage(cluster, wst[t].unit.r, wst[t].unit.namespace,
             listLog[t][n].limit, listLog[t][n].continue)

CephClusterKey == <<"namespaces", "rook-ceph", "ceph.rook.io", "cephclusters", "ceph">>

\* C19: a failing unit stops only its own work. When Gather() returns
\* every queued unit was executed whatever failed in other units; a unit
\* that finished has processed every object of every page it listed and
\* has gone on to the next page, also after dumps failed; a failed dump
\* of an object does not stop its inspection.
C19_FailureStopsOnlyItsUnit ==
    /\ (pc = "done" /\ prepErr = "nil") =>
          /\ ran = accepted
          /\ QueuedUnits = ExpectedUnits
          /\ (cluster = "rook" /\ addonEnabled("rook", opts) /\ CephClusterKey \in resources) =>
                \E u \in BagToSet(ran) : u.kind = "gatherCommands"
    /\ \A t \in WorkerThreads :
          FinishedUnit(t) =>
              /\ \A n \in 1..Len(listLog[t]) :
                    listLog[t][n].result = "ok" =>
                        \A k \in 1..Len(LoggedPage(t, n)) :
                            keyFromResource(wst[t].unit.r, LoggedPage(t, n)[k])
                                \in resources
              /\ listLog[t] # <<>>
              /\ LET last == listLog[t][Len(listLog[t])] IN
                    last.result = "ok" =>
                        GetContinue(cluster, wst[t].unit.r, wst[t].unit.namespace,
                                    last.limit, last.continue) = 0

\* Gather() returned after the dump of the first claim of a list failed
\* and the second claim of the list was written.
C19_Witness ==
    /\ pc = "done"
    /\ opts.Namespaces = <<>>
    /\ <<"namespaces", "ns1", "persistentvolumeclaims", "c1">> \in resources
    /\ YamlFile(<<"namespaces", "ns1", "persistentvolumeclaims", "c1">>) \notin files
    /\ YamlFile(<<"namespaces", "ns2", "persistentvolumeclaims", "c2">>) \in files
    /\ ran = accepted

\* The worker runs a gatherResources unit.
InGatherResources(t) ==
    wst[t].st = "busy" /\ wst[t].unit.kind = "gatherResources"

\* The n-th listResources call of worker t ended the listing: an error
\* on the first page or on the list without limit, or an error other
\* than an expired token on a later page.
ListingFailed(t, n) ==
    /\ listLog[t][n].result # "ok"
    /\ ~(listLog[t][n].result = "expired" /\ listLog[t][n].continue # 0)

\* C20: gatherResources starts with a paginated list; a list error on
\* the first page ends the unit; an expired token on a later page is
\* followed by exactly one list without limit and token; any other
\* error on a later page and a failure of that list end the listing;
\* no other call follows an error.
C20_ListErrors ==
    \A t \in WorkerThreads :
        InGatherResources(t) =>
            LET L == listLog[t]
                u == wst[t].unit
            IN
            /\ Len(L) >= 1 => L[1].limit = PageLimit /\ L[1].continue = 0
            /\ \A n \in 1..Len(L) :
                  /\ L[n].limit = 0 => n = Len(L) /\ n > 1 /\ L[n].continue = 0
                  /\ n < Len(L) =>
                        \/ /\ L[n].result = "ok"
                           /\ L[n + 1].limit = L[n].limit
                           /\ L[n + 1].continue # 0
                           /\ L[n + 1].continue =
                                 GetContinue(cluster, u.r, u.namespace,
                                             L[n].limit, L[n].continue)
                        \/ /\ L[n].result = "expired"
                           /\ L[n].continue # 0
                           /\ L[n + 1].limit = 0
                  /\ ListingFailed(t, n) => n = Len(L) /\ ops[t] = <<>>
                  /\ (n = Len(L) /\ L[n].result = "expired" /\ L[n].continue # 0) =>
                        ops[t] = <<ListOp(u.r, u.namespace, 0, 0)>>
            /\ Cardinality({n \in 1..Len(L) : L[n].limit = 0}) <= 1

\* The token of the second page expired, and the list without limit
\* returned both claims.
C20_Witness ==
    \E t \in WorkerThreads :
        /\ FinishedUnit(t)
        /\ Len(listLog[t]) = 3
        /\ listLog[t][2].result = "expired"
        /\ listLog[t][3].limit = 0
        /\ listLog[t][3].result = "ok"
        /\ CopiesIn(<<"namespaces", "ns2", "persistentvolumeclaims", "c2">>, addCalls) = 1

\* C22: shouldGather returns true exactly when the verbs of the resource
\* contain "list"; and, with a namespace filter, the resource is
\* namespaced and is not packagemanifests of packages.operators.coreos.com;
\* and it is not events of the empty group; and it is not
\* componentstatuses of the empty group.
C22_ShouldGather ==
    (input # <<>> /\ input.fn = "shouldGather" /\ output # <<>>) =>
        LET res == input.res IN
        output[1] <=>
            /\ "list" \in res.verbs
            /\ Len(input.Namespaces) # 0 =>
                  /\ res.namespaced
                  /\ ~(res.name = "packagemanifests"
                       /\ res.group = "packages.operators.coreos.com")
            /\ ~(res.name = "events" /\ res.group = "")
            /\ ~(res.name = "componentstatuses" /\ res.group = "")

\* shouldGather accepted the events of the group events.k8s.io.
C22_Witness ==
    /\ input # <<>>
    /\ input.fn = "shouldGather"
    /\ input.res.name = "events"
    /\ input.res.group = "events.k8s.io"
    /\ output = <<TRUE>>

\* C23: in the addon map createAddons returns, an addon is bound to its
\* resource name if and only if Options.Addons is nil or contains the name
\* of the addon; with an empty list that is not nil the map is empty.
C23_AddonsBound ==
    (input # <<>> /\ input.fn = "createAddons" /\ output # <<>> /\ output[1].err = "nil") =>
        LET addons == output[1].registry
            list == input.Addons.list
        IN  /\ \A a \in DOMAIN AddonRegistry :
                  (AddonRegistry[a] \in DOMAIN addons /\ addons[AddonRegistry[a]] = a)
                  <=> (input.Addons.nil \/ \E i \in 1..Len(list) : list[i] = a)
            /\ DOMAIN addons \subseteq {AddonRegistry[a] : a \in DOMAIN AddonRegistry}
            /\ (~input.Addons.nil /\ Len(list) = 0) => DOMAIN addons = {}

\* createAddons returned an empty map for an empty list that is not nil.
C23_Witness ==
    /\ input # <<>>
    /\ input.fn = "createAddons"
    /\ ~input.Addons.nil
    /\ Len(input.Addons.list) = 0
    /\ output # <<>>
    /\ output[1].err = "nil"
    /\ DOMAIN output[1].registry = {}

\* C21: the objects gathered before a full-list fallback are not counted
\* twice. The count of a gatherResources unit never exceeds the number of
\* objects of its resource, it is that number when the unit ends after a
\* successful list, and Count() is the number of addResource calls won.
C21_CountedOnce ==
    /\ \A t \in WorkerThreads :
          InGatherResources(t) =>
            LET n == Len(ListItems(cluster, wst[t].unit.r, wst[t].unit.namespace)) IN
                /\ count[t] <= n
                /\ (/\ FinishedUnit(t)
                    /\ listLog[t] # <<>>
                    /\ listLog[t][Len(listLog[t])].result = "ok") => count[t] = n
    /\ Count = BagCardinality(wins)

\* A unit took the fallback after one page of one object and ended with
\* both objects counted.
C21_Witness ==
    \E t \in WorkerThreads :
        /\ FinishedUnit(t)
        /\ Len(listLog[t]) = 3
        /\ listLog[t][1].result = "ok"
        /\ listLog[t][2].result = "expired"
        /\ listLog[t][3].result = "ok"
        /\ listLog[t][3].limit = 0
        /\ count[t] = 2

\* C27: pvcsAddon.Inspect calls GatherResource for the persistent volume
\* exactly when there is a namespace filter and spec.volumeName is a
\* string that is not empty, and for the storage class exactly when there
\* is a namespace filter and spec.storageClassName is a string that is not
\* empty; it makes no other call, none without a namespace filter, and
\* returns nil.
C27_PvcsInspect ==
    (input # <<>> /\ input.fn = "pvcsInspect" /\ output # <<>>) =>
        LET obj == input.Object.v
            Has(field) == /\ Len(input.Namespaces) # 0
                          /\ "spec" \in DOMAIN obj
                          /\ obj.spec.kind = "map"
                          /\ field \in DOMAIN obj.spec.v
                          /\ obj.spec.v[field].kind = "string"
                          /\ obj.spec.v[field].v # ""
            Expected(field, group, resource) ==
                IF Has(field)
                   THEN <<[op |-> "gatherResource",
                           r |-> [group |-> group, resource |-> resource,
                                  namespaced |-> FALSE],
                           namespace |-> "", name |-> obj.spec.v[field].v]>>
                   ELSE <<>>
        IN  /\ output[1].calls = Expected("volumeName", "", "persistentvolumes")
                                 \o Expected("storageClassName", "storage.k8s.io", "storageclasses")
            /\ output[1].err = Nil

\* With a namespace filter, Inspect of a claim with a volume name and an
\* empty storage class name called GatherResource for the volume only.
C27_Witness ==
    /\ input # <<>>
    /\ input.fn = "pvcsInspect"
    /\ Len(input.Namespaces) # 0
    /\ "spec" \in DOMAIN input.Object.v
    /\ input.Object.v.spec.kind = "map"
    /\ DOMAIN input.Object.v.spec.v = {"volumeName", "storageClassName"}
    /\ input.Object.v.spec.v.volumeName = [kind |-> "string", v |-> "name1"]
    /\ input.Object.v.spec.v.storageClassName = [kind |-> "string", v |-> ""]
    /\ output # <<>>
    /\ Len(output[1].calls) = 1
    /\ output[1].calls[1].r.resource = "persistentvolumes"

\* C28: for an inspected pod the logs addon queues on the inspect queue
\* one unit for the current log of every entry of status.containerStatuses
\* and status.initContainerStatuses that has a string name, one unit for
\* the previous log of each of these entries whose
\* lastState.terminated.containerID is a string that is not empty, and
\* nothing else.
C28_LogUnits ==
    (input # <<>> /\ input.fn = "logsInspect" /\ output # <<>>) =>
        LET calls == output[1].calls
            Keys == {"containerStatuses", "initContainerStatuses"}
            Entries(key) ==
                IF /\ "status" \in DOMAIN input.Object.v
                   /\ input.Object.v.status.kind = "map"
                   /\ key \in DOMAIN input.Object.v.status.v
                   /\ input.Object.v.status.v[key].kind = "slice"
                   THEN input.Object.v.status.v[key].v ELSE <<>>
            Slots == {s \in Keys \X (1..(MaxContainers + 1)) : s[2] <= Len(Entries(s[1]))}
            Entry(s) == Entries(s[1])[s[2]]
            Named(s, n) == /\ Entry(s).kind = "map"
                           /\ "name" \in DOMAIN Entry(s).v
                           /\ Entry(s).v.name.kind = "string"
                           /\ Entry(s).v.name.v = n
            Terminated(s) == /\ "lastState" \in DOMAIN Entry(s).v
                             /\ Entry(s).v.lastState.kind = "map"
                             /\ "terminated" \in DOMAIN Entry(s).v.lastState.v
                             /\ Entry(s).v.lastState.v.terminated.kind = "map"
                             /\ "containerID" \in DOMAIN Entry(s).v.lastState.v.terminated.v
                             /\ Entry(s).v.lastState.v.terminated.v.containerID.kind = "string"
                             /\ Entry(s).v.lastState.v.terminated.v.containerID.v # ""
            Units(n, previous) ==
                {i \in DOMAIN calls : /\ calls[i].unit.container.Name = n
                                      /\ calls[i].unit.previous = previous}
        IN  /\ \A i \in DOMAIN calls :
                  /\ calls[i].op = "queue"
                  /\ calls[i].q = "inspect"
                  /\ calls[i].unit.kind = "gatherContainerLog"
                  /\ calls[i].unit.container.Namespace = "ns1"
                  /\ calls[i].unit.container.Pod = "pod1"
                  /\ calls[i].unit.container.Name \in {"c1", "", "init"}
            /\ \A n \in {"c1", "", "init"} :
                  /\ Cardinality(Units(n, FALSE))
                       = Cardinality({s \in Slots : Named(s, n)})
                  /\ Cardinality(Units(n, TRUE))
                       = Cardinality({s \in Slots : Named(s, n) /\ Terminated(s)})
            /\ output[1].err = Nil

\* Inspect of a pod with two containers and an init container, one of
\* the containers and the init container restarted: five units.
C28_Witness ==
    /\ input # <<>>
    /\ input.fn = "logsInspect"
    /\ output # <<>>
    /\ Len(output[1].calls) = 5
    /\ Cardinality({i \in 1..5 : output[1].calls[i].unit.previous}) = 2
    /\ Cardinality({i \in 1..5 : output[1].calls[i].unit.container.Name = "c1"}) = 3

\* C30: RemoteDirectory.Gather returns nil if and only if both commands
\* started, the local tar exited successfully and the remote tar either
\* exited successfully or failed with exit code 1 and a stderr line
\* matching the file-changed pattern; any other remote failure is returned
\* as a remote tar error, also when the local tar succeeded; a local
\* failure is returned whenever the remote side is acceptable.
C30_RemoteDirectoryGather ==
    (input # <<>> /\ input.fn = "RemoteDirectoryGather" /\ output # <<>>) =>
        LET FileChanged(line) ==
                /\ line[1] \in {"tar: ", "TAR: "}
                /\ line[2] # ""
                /\ line[3] \in {" file changed as we read it", " File Changed As We Read It"}
            acceptable ==
                \/ input.remoteErr.kind = "nil"
                \/ /\ input.remoteErr.kind = "ExitError"
                   /\ input.remoteErr.code = 1
                   /\ \E i \in DOMAIN input.stderr : FileChanged(input.stderr[i])
            localOk == input.localErr.kind = "nil"
        IN  /\ output[1] = <<"nil">> <=> (input.start = "ok" /\ localOk /\ acceptable)
            /\ input.start = "ok" =>
                  /\ ~acceptable => output[1][1] = "remote tar error"
                  /\ (acceptable /\ ~localOk) => output[1][1] = "local tar error"

\* Gather returned nil after the remote tar failed with exit code 1 and
\* reported a changed file on the second line of its stderr.
C30_Witness ==
    /\ input # <<>>
    /\ input.fn = "RemoteDirectoryGather"
    /\ input.start = "ok"
    /\ input.remoteErr = [kind |-> "ExitError", code |-> 1]
    /\ Len(input.stderr) = 2
    /\ input.stderr[1][1] = "Error from server (NotFound): "
    /\ input.stderr[2][1] = "TAR: "
    /\ output = << <<"nil">> >>

\* C24: with an addon list that is empty and not nil no unit is ever
\* submitted to the inspect queue, no file is created under addons/, no
\* container log is created and no persistent volume or storage class is
\* fetched for a claim; the objects of the main sweep are still written.
C24_NoAddons ==
    (~opts.Addons.nil /\ Len(opts.Addons.list) = 0) =>
        /\ \A t \in Threads : ~InQueue(t, "inspect")
        /\ \A i \in WorkerIds : wst[<<"inspect", i>>].unit = NoUnit
        /\ \A u \in BagToSet(accepted) : u.kind = "gatherResources"
        /\ \A f \in files \cup BagToSet(writes) :
              /\ f.dir[1] # "addons"
              /\ f.suffix # ".log"
        /\ \A n \in DOMAIN agent : agent[n] = <<>>
        /\ gets = EmptyBag
        /\ \A t \in Threads :
              ops[t] # <<>> => Head(ops[t]).op \notin {"gatherResource", "get"}
        /\ \A k \in resources : YamlFile(k) \in files => CopiesIn(YamlFile(k), writes) = 1

\* Gather() returned with the pod and the claim written, and nothing
\* else but the namespace.
C24_Witness ==
    /\ ~opts.Addons.nil
    /\ Len(opts.Addons.list) = 0
    /\ pc = "done"
    /\ files = {CreateNamespacedResource("ns1", <<"pods">>, "pod1"),
                CreateNamespacedResource("ns1", <<"persistentvolumeclaims">>, "c1"),
                CreateClusterResource(<<"namespaces">>, "ns1")}

C26_OnlyNamespacesUnderCluster ==
    (Len(opts.Namespaces) # 0 /\ ~addonEnabled("pvcs", opts)) =>
        /\ \A k \in resources :
              k[1] = "cluster" =>
                  \E i \in DOMAIN found : k = <<"cluster", "namespaces", found[i]>>
        /\ \A f \in files \cup BagToSet(writes) :
              f.dir[1] = "cluster" =>
                  /\ f.dir = <<"cluster", "namespaces">>
                  /\ \E i \in DOMAIN found : f.name = found[i]
        /\ gets = EmptyBag
        /\ \A u \in QueuedUnits : u.r.namespaced

\* Only the logs addon is enabled and Gather() returned with the current
\* log of the container written.
C26_Witness ==
    /\ Len(opts.Namespaces) # 0
    /\ opts.Addons = List(<<"logs">>)
    /\ pc = "done"
    /\ CreateContainerLog("ns1", "pod1", "c1", "current") \in files
    /\ CreateNamespacedResource("ns1", <<"persistentvolumeclaims">>, "c1") \in files

\* C29: every agent pod gatherNodeLogs created has a delete request
\* issued before the unit returns, on every path: when gatherNodeLogs has
\* returned, a pod that was created was deleted, once, as the last thing
\* done with it; nothing is done with a pod after its deletion, and a pod
\* that did not reach Running is deleted without a logs directory or a
\* copy.
C29_AgentDeleted ==
    \A t \in WorkerThreads :
        (wst[t].st = "busy" /\ wst[t].unit.kind = "gatherNodeLogs") =>
            LET log == agent[wst[t].unit.node]
                Has(e) == \E i \in DOMAIN log : log[i] = e
                returned == ops[t] = <<>>
            IN  /\ returned => log # <<>>
                /\ (returned /\ Has("Create")) =>
                      /\ log[Len(log)] = "Delete"
                      /\ Cardinality({i \in DOMAIN log : log[i] = "Delete"}) = 1
                /\ \A i \in DOMAIN log :
                      log[i] = "Delete" => (i = Len(log) /\ log[1] = "Create")
                /\ (Has("WaitUntilRunning error") \/ Has("WaitUntilRunning timeout")) =>
                      /\ ~Has("CreateAddonDir")
                      /\ ~Has("Gather")
                      /\ ~Has("Gather error")
                      /\ returned => Has("Delete")

\* The wait for the agent pod of a node timed out and the unit ended
\* with the pod deleted.
C29_Witness ==
    \E n \in DOMAIN agent : agent[n] = <<"Create", "WaitUntilRunning timeout", "Delete">>

(***************************************************************************)
(* The namespace filter.                                                   *)
(***************************************************************************)
\* C32: a namespace filter that is present but empty (--namespaces= gives
\* Options.Namespaces of length 0) makes the job fail: nothing is added or
\* written and Gather() does not return nil.
C32_EmptyFilterFails ==
    Len(opts.Namespaces) = 0 =>
        /\ resources = {}
        /\ files = {}
        /\ pc = "done" => ret # <<"nil">>

(***************************************************************************)
(* The resources set after Gather() returned.                              *)
(***************************************************************************)
\* C33: when Gather() has returned, on every return path, every worker of
\* both queues has exited and no thread has anything left to do: nobody
\* can call addResource or write a file any more, so what Count() reads
\* is stable.
C33_FrozenWhenGatherReturns ==
    pc = "done" =>
        /\ \A t \in WorkerThreads : wst[t].st = "exited" /\ ops[t] = <<>>
        /\ ops[MainThread] = <<>>
        /\ \A q \in Queues : wg[q] = 0 /\ chClosed[q]
        /\ ~ENABLED (\E t \in GatherThreads : addItem(t) \/ dumpResource(t))
        /\ ~ENABLED (\E t \in WorkerThreads :
                        gatherResource(t) \/ gatherContainerLog(t))

\* Gather() returned nil after units ran on both queues and added keys.
C33_Witness ==
    /\ pc = "done"
    /\ ret = <<"nil">>
    /\ Count >= 2
    /\ \E u \in BagToSet(ran) : u.kind = "gatherContainerLog"

(***************************************************************************)
(* Keys and file paths.                                                    *)
(***************************************************************************)
\* C34: the file createResource creates for a dumped object, relative to
\* the output base, is the key of the object followed by ".yaml":
\* cluster/{display name}/{name}.yaml for a cluster scoped resource and
\* namespaces/{namespace}/{display name}/{name}.yaml for a namespaced
\* one, whether the object comes from the namespace lookup, from the
\* sweep or from a cross-reference fetch; every object file written is
\* the file of a key of resources.
C34_FileIsKeyYaml ==
    /\ \A t \in GatherThreads :
          (ops[t] # <<>> /\ Head(ops[t]).op = "dump") =>
              LET r == Head(ops[t]).r
                  item == Head(ops[t]).item
                  key == keyFromResource(r, item)
                  path == Filename(createResource(r, item))
              IN  /\ key \in resources
                  /\ path = Sprintf(key) \o ".yaml"
                  /\ path = IF r.namespaced
                               THEN "namespaces/" \o item.ns \o "/" \o Sprintf(Name(r))
                                    \o "/" \o item.name \o ".yaml"
                               ELSE "cluster/" \o Sprintf(Name(r)) \o "/"
                                    \o item.name \o ".yaml"
    /\ \A f \in BagToSet(writes) :
          f.suffix = ".yaml" =>
              \E k \in resources : Filename(f) = Sprintf(k) \o ".yaml"

\* A namespace of the filter, a claim found by the sweep and the volume
\* the claim refers to, fetched by the pvcs addon, have all been dumped.
C34_Witness ==
    /\ BagIn(createResource(NamespacesResource, [ns |-> "", name |-> "ns1"]), writes)
    /\ \E f \in BagToSet(writes) :
          Filename(f) = "namespaces/ns1/persistentvolumeclaims/c1.yaml"
    /\ BagIn(<<<<"cluster", "persistentvolumes", "pv1">>, "ok">>, gets)
    /\ \E f \in BagToSet(writes) :
          Filename(f) = "cluster/persistentvolumes/pv1.yaml"
    /\ \E f \in BagToSet(writes) :
          Filename(f) = "cluster/storage.k8s.io/storageclasses/standard.yaml"

\* C35: for components without "/", different (scope, namespace, group,
\* resource, name) give different keys and different paths, objects with
\* the same display name have the same group and resource, and the only
\* way to split a display name into a group and a resource without "/"
\* is the original group and resource.
C35_KeysInjective ==
    (input # <<>> /\ input.fn = "keyFromName" /\ output # <<>>
     /\ {input.a.group, input.b.group} \subseteq {""} \cup NoSlash
     /\ {input.a.resource, input.b.resource} \subseteq NoSlash) =>
        LET a == output[1].a
            b == output[1].b
            Split(display) ==
                {gr \in ({""} \cup NoSlash) \X NoSlash :
                    display = IF gr[1] = "" THEN gr[2] ELSE gr[1] \o "/" \o gr[2]}
        IN  /\ input.a # input.b => a.key # b.key /\ a.path # b.path
            /\ a.display = b.display =>
                  /\ input.a.group = input.b.group
                  /\ input.a.resource = input.b.resource
            /\ Split(a.display) = {<<input.a.group, input.a.resource>>}
            /\ a.path = a.key \o ".yaml"

\* Two cluster scoped objects without "/" that differ only in the group
\* have been mapped.
C35_Witness ==
    /\ input # <<>>
    /\ input.fn = "keyFromName"
    /\ output # <<>>
    /\ input.a = [group |-> "", resource |-> "b", namespace |-> "", name |-> "a"]
    /\ input.b = [group |-> "a", resource |-> "b", namespace |-> "", name |-> "a"]
    /\ output[1].a.key = "cluster/b/a"
    /\ output[1].b.path = "cluster/a/b/a.yaml"

(***************************************************************************)
(* Cross-reference fetches.                                                *)
(***************************************************************************)
\* gatherResource was called for key and every call made has returned:
\* with a namespace filter the sweep lists no cluster scoped resource, so
\* a cluster scoped key other than a namespace is added by gatherResource
\* only, and a worker inside the call is about to get or dump the object.
GatherResourceReturned(key) ==
    /\ Len(opts.Namespaces) > 0
    /\ key[1] = "cluster"
    /\ key[2] # "namespaces"
    /\ BagIn(key, addCalls)
    /\ \A t \in WorkerThreads :
          ~(/\ ops[t] # <<>>
            /\ \/ /\ Head(ops[t]).op = "get"
                  /\ keyFromName(Head(ops[t]).r, Head(ops[t]).namespace,
                                 Head(ops[t]).name) = key
               \/ /\ Head(ops[t]).op = "dump"
                  /\ keyFromResource(Head(ops[t]).r, Head(ops[t]).item) = key)

C37_StreamFailure ==
    LET LogFile(u) ==
            CreateContainerLog(u.container.Namespace, u.container.Pod, u.container.Name,
                               IF u.previous THEN "previous" ELSE "current")
    IN  /\ \A t \in WorkerThreads :
              (/\ wst[t].st = "busy"
               /\ wst[t].unit.kind = "gatherContainerLog"
               /\ ops[t] = <<>>
               /\ ~BagIn(LogFile(wst[t].unit), writes)) =>
                  /\ t[1] = "inspect"
                  /\ LogFile(wst[t].unit) \notin files
                  /\ Err(wst[t].unit) = Nil
                  /\ qerr["inspect"] = Nil
        /\ \A u \in BagToSet(ran) :
              (u.kind = "gatherContainerLog" /\ ~BagIn(LogFile(u), writes)) =>
                  /\ LogFile(u) \notin files
                  /\ errLog["inspect"] = <<>>
                  /\ qerr["inspect"] = Nil
                  /\ pc = "done" => ret = <<"nil">>
        /\ \A f \in files : f.suffix = ".log" => BagIn(f, writes)
        /\ \A t \in WorkerThreads :
              (ops[t] # <<>> /\ Head(ops[t]).op = "createContainerLog") =>
                  /\ Len(ops[t]) = 1
                  /\ wst[t].unit.kind = "gatherContainerLog"

\* Gather() has returned nil after the log unit of the container c1 of
\* pod1 ran without calling CreateContainerLog: its stream was not opened.
C37_Witness ==
    /\ pc = "done"
    /\ ret = <<"nil">>
    /\ BagIn(GatherContainerLogUnit([Namespace |-> "ns1", Pod |-> "pod1", Name |-> "c1",
                                     HasPreviousLog |-> FALSE], FALSE), ran)
    /\ ~BagIn(CreateContainerLog("ns1", "pod1", "c1", "current"), writes)
    /\ CreateContainerLog("ns1", "pod1", "c1", "current") \notin files

(***************************************************************************)
(* The agent pod.                                                          *)
(***************************************************************************)
\* C38: WaitUntilRunning returns nil only after an added or modified
\* event whose pod phase is Running, every event before it being skipped;
\* it returns an error on the first event that is an added or modified
\* pod in phase Failed or Succeeded, a deleted event or an error event,
\* and the timeout error when the watch ends without any of these; added
\* or modified pods in another phase (and bookmarks) are skipped. When
\* the watcher cannot be created its error is returned.
C38_WaitUntilRunning ==
    (input # <<>> /\ input.fn = "WaitUntilRunning" /\ output # <<>>) =>
      IF input.watcherErr # "" THEN output[1] = input.watcherErr
      ELSE
        LET events == input.events
            Changed(e) == e.Type \in {"ADDED", "MODIFIED"}
            Running(e) == Changed(e) /\ e.Phase = "Running"
            Fails(e) == \/ Changed(e) /\ e.Phase \in {"Failed", "Succeeded"}
                        \/ e.Type \in {"DELETED", "ERROR"}
            Skipped(e) == ~Running(e) /\ ~Fails(e)
            First(i) == \A j \in 1..(i - 1) : Skipped(events[j])
        IN  /\ output[1] = "nil" <=>
                  \E i \in DOMAIN events : Running(events[i]) /\ First(i)
            /\ output[1] \notin {"nil", "timeout waiting for agent pod running phase"} <=>
                  \E i \in DOMAIN events : Fails(events[i]) /\ First(i)
            /\ output[1] = "timeout waiting for agent pod running phase" <=>
                  \A i \in DOMAIN events : Skipped(events[i])
            /\ \A i \in DOMAIN events :
                  First(i) =>
                      /\ (Changed(events[i]) /\ events[i].Phase = "Failed") =>
                            output[1] = "agent pod failed"
                      /\ (Changed(events[i]) /\ events[i].Phase = "Succeeded") =>
                            output[1] = "agent pod terminated"
                      /\ events[i].Type = "DELETED" => output[1] = "agent pod was deleted"
                      /\ events[i].Type = "ERROR" => output[1] = "agent pod watch error"

\* The pod is added in phase Pending, which is skipped, then modified to
\* Running: WaitUntilRunning returned nil.
C38_Witness ==
    /\ input # <<>>
    /\ input.fn = "WaitUntilRunning"
    /\ input.watcherErr = ""
    /\ input.events = <<[Type |-> "ADDED", Phase |-> "Pending"],
                        [Type |-> "MODIFIED", Phase |-> "Running"]>>
    /\ output = <<"nil">>

(***************************************************************************)
(* Inspect and the de-dup set.                                             *)
(***************************************************************************)
\* C39: addon.Inspect is called for an item exactly in the step in which
\* the thread wins addResource for its key, on that thread, and a key is
\* won once; so Inspect runs at most once per key, and the units Inspect
\* queues for an object are queued once, also when a list without limit
\* returns again the objects of the pages already processed.
C39_InspectOncePerKey ==
    [][/\ \A t \in GatherThreads :
             (ops[t] # <<>> /\ Head(ops[t]).op = "item" /\ ops'[t] # ops[t]) =>
                 LET o == Head(ops[t])
                     key == keyFromResource(o.r, o.item)
                     won == key \notin resources
                 IN  /\ won => ~BagIn(key, wins) /\ CopiesIn(key, wins') = 1
                     /\ ~won => wins' = wins
                     /\ ops'[t] =
                           (IF won
                               THEN <<DumpOp(o.r, o.item)>>
                                    \o (IF o.inspect THEN Inspect(opts, o.r, o.item)
                                                     ELSE <<>>)
                               ELSE <<>>)
                           \o Tail(ops[t])
       /\ \A u \in BagToSet(accepted') :
             u.kind \in {"gatherContainerLog", "gatherCommands", "gatherLogs"} =>
                 CopiesIn(u, accepted') = 1
       /\ \A k \in BagToSet(wins') : CopiesIn(k, wins') = 1]_vars

\* The token of the second page of pods expired and the list without
\* limit returned pod1 again: addResource was called twice for pod1 and
\* won once, and the log unit of each pod was queued once.
C39_Witness ==
    LET LogUnit(pod) ==
            GatherContainerLogUnit([Namespace |-> "ns1", Pod |-> pod, Name |-> "c1",
                                    HasPreviousLog |-> FALSE], FALSE)
        key == <<"namespaces", "ns1", "pods", "pod1">>
    IN  /\ cluster = "pages"
        /\ \E t \in WorkerThreads :
              /\ Len(listLog[t]) = 3
              /\ listLog[t][2].result = "expired"
              /\ listLog[t][3] = [limit |-> 0, continue |-> 0, result |-> "ok"]
        /\ CopiesIn(key, addCalls) = 2
        /\ CopiesIn(key, wins) = 1
        /\ CopiesIn(LogUnit("pod1"), accepted) = 1
        /\ CopiesIn(LogUnit("pod2"), accepted) = 1

\* C40: a key is in resources before its object is fetched or written and
\* is never removed. A later gatherResource call or sweep item with a key
\* of resources is skipped, whatever became of the winner's get and dump:
\* the object is got at most once and dumped at most once, after a failed
\* get it is never written, and a file that could not be created is never
\* created later.
C40_KeyNeverRemoved ==
    [][/\ resources \subseteq resources'
       /\ \A t \in GatherThreads :
             (ops[t] # <<>> /\ ops'[t] # ops[t]) =>
                 LET o == Head(ops[t]) IN
                     /\ o.op = "get" => keyFromName(o.r, o.namespace, o.name) \in resources
                     /\ o.op = "dump" => keyFromResource(o.r, o.item) \in resources
                     /\ (o.op = "item" /\ keyFromResource(o.r, o.item) \in resources) =>
                           /\ ops'[t] = Tail(ops[t])
                           /\ files' = files /\ writes' = writes /\ gets' = gets
                     /\ (/\ o.op = "gatherResource"
                         /\ keyFromName(ResourceInfo(o.r.group, o.r.resource, o.namespace # ""),
                                        o.namespace, o.name) \in resources) =>
                           /\ ops'[t] = Tail(ops[t])
                           /\ files' = files /\ writes' = writes /\ gets' = gets
       /\ \A k \in resources' :
             /\ CopiesIn(<<k, "error">>, gets') + CopiesIn(<<k, "ok">>, gets') <= 1
             /\ CopiesIn(YamlFile(k), writes') <= 1
             /\ BagIn(<<k, "error">>, gets') =>
                   YamlFile(k) \notin files' /\ ~BagIn(YamlFile(k), writes')
             /\ (BagIn(YamlFile(k), writes) /\ YamlFile(k) \notin files) =>
                   YamlFile(k) \notin files']_vars

\* Gather() has returned: the winner of the key of pv1 failed to get the
\* volume, the GatherResource call for the other claim was skipped, and
\* the volume was not written.
C40_Witness ==
    LET key == <<"cluster", "persistentvolumes", "pv1">> IN
        /\ pc = "done"
        /\ key \in resources
        /\ CopiesIn(key, addCalls) = 2
        /\ gets = SetToBag({<<key, "error">>})
        /\ YamlFile(key) \notin files
        /\ ~BagIn(YamlFile(key), writes)

(***************************************************************************)
(* Jobs of localGather (checked under SpecLocal).                          *)
(***************************************************************************)
\* C31: the jobs of localGather are isolated. Every Gatherer has its own
\* resources and the base directory of its context, different contexts
\* having different bases; every file is below the base of the job that
\* created it, no file below the base of a job holds an object of
\* another cluster, the resources of a job, and so its Count(), hold
\* only keys of objects of its own cluster, and the total is the sum of
\* the counts of the jobs.
C31_JobsIsolated ==
    local # <<>> =>
        LET clusters == local.clusters
            Constructed == {j \in DOMAIN clusters : local.g[j].pc # "go"
                                                 /\ local.g[j].base # ""}
            Keys(c) == {keyFromResource(x.r, x.item) : x \in ClusterObjects(c)}
            RECURSIVE Total(_)
            Total(js) == IF js = {} THEN 0
                         ELSE LET j == CHOOSE j \in js : TRUE IN
                                  Cardinality(local.g[j].resources) + Total(js \ {j})
        IN  /\ \A j \in Constructed :
                  /\ local.g[j].base = Join(<<Directory, clusters[j].Context>>)
                  /\ local.g[j].resources \subseteq Keys(clusters[j].Config)
                  /\ \A f \in local.disk :
                        f.base = local.g[j].base =>
                            /\ f.from = clusters[j].Config
                            /\ \E k \in Keys(f.from) : f.name = Sprintf(k) \o ".yaml"
            /\ \A i, j \in Constructed :
                  clusters[i].Context # clusters[j].Context =>
                      local.g[i].base # local.g[j].base
            /\ \A f \in local.disk : \E j \in Constructed : f.base = local.g[j].base
            /\ \A i \in DOMAIN local.results :
                  \E j \in DOMAIN clusters :
                      /\ local.g[j].pc = "exit"
                      /\ local.results[i].Count = Cardinality(local.g[j].resources)
            /\ (local.count # <<>> /\ ~local.count[1].fatal) =>
                  local.count[1].count = Total(DOMAIN clusters)

\* The jobs of the clusters storage and app have both gathered their
\* claim ns1/c1: the key is in the resources of both, its file is below
\* both bases, and the total counts every object of both jobs.
C31_Witness ==
    /\ local # <<>>
    /\ local.clusters = << [Context |-> "storage", Config |-> "storage"],
                           [Context |-> "app", Config |-> "app"] >>
    /\ \A j \in {1, 2} :
          <<"namespaces", "ns1", "persistentvolumeclaims", "c1">> \in local.g[j].resources
    /\ [base |-> "out/storage", name |-> "namespaces/ns1/persistentvolumeclaims/c1.yaml",
        from |-> "storage"] \in local.disk
    /\ [base |-> "out/app", name |-> "namespaces/ns1/persistentvolumeclaims/c1.yaml",
        from |-> "app"] \in local.disk
    /\ local.count = <<[fatal |-> FALSE,
                        count |-> Cardinality(local.g[1].resources)
                                  + Cardinality(local.g[2].resources)]>>
    /\ Cardinality(local.g[2].resources) = 4

====
